---- MODULE Spec2Model ----
(***************************************************************************)
(* A model of the halftone generator: the seeded generator, the rotated    *)
(* grid sampler, the shape generators and the pattern dispatcher           *)
(* (HalftonePatterns / AdvancedPatterns), the colour separation            *)
(* (colorUtils.js), the worker (worker.js) and the main thread's job       *)
(* handling (HalftoneApp, SVGExporter).                                    *)
(*                                                                         *)
(* Numbers.  JavaScript doubles are modelled in fixed point: a length, a   *)
(* coordinate, an intensity or a random draw v is the integer              *)
(* floor(v * Scale).  Angles of the configuration are whole degrees (the   *)
(* UI parses them with parseInt); sine and cosine are Bhaskara's rational  *)
(* approximation, exact at multiples of 30 and 90 degrees.                 *)
(***************************************************************************)
EXTENDS Integers, Sequences, FiniteSets, TLC

Scale == 10 * 10 * 10

Half == Scale \div 2

Min(a, b) == IF a < b THEN a ELSE b

Max(a, b) == IF a > b THEN a ELSE b

\* Math.max(0, Math.min(1, v))
Clamp01(v) == Max(0, Min(Scale, v))

\* Math.floor of a fixed-point number, as an integer
Floor(v) == v \div Scale

RECURSIVE SqrtSearch(_, _, _)
SqrtSearch(n, lo, hi) ==
  IF lo >= hi THEN lo
  ELSE LET mid == (lo + hi + 1) \div 2
       IN  IF mid * mid <= n THEN SqrtSearch(n, mid, hi)
           ELSE SqrtSearch(n, lo, mid - 1)

\* floor(Math.sqrt(n)) of an integer n
ISqrt(n) == SqrtSearch(n, 0, 46340)

\* Math.sin of x degrees, 0 <= x <= 180, in fixed point
SinPos(x) == (4 * x * (180 - x) * Scale) \div (40500 - x * (180 - x))

\* Math.sin(d * Math.PI / 180) for a whole number of degrees d
SinDeg(d) ==
  LET x == d % 360
  IN  IF x <= 180 THEN SinPos(x) ELSE -SinPos(x - 180)

\* Math.cos(d * Math.PI / 180) for a whole number of degrees d
CosDeg(d) == SinDeg(d + 90)

\* Number.prototype.toFixed(2): the value in hundredths, rounded half away from zero
ToFixed2(v) ==
  IF v >= 0 THEN (v + 5) \div 10 ELSE -((5 - v) \div 10)

RECURSIVE Flatten(_)
Flatten(ss) == IF ss = <<>> THEN <<>> ELSE Head(ss) \o Flatten(Tail(ss))

(***************************************************************************)
(* SeededRandom: AdvancedPatterns.createSeededRandom and the local copy in *)
(* generateStochasticPattern.                                              *)
(***************************************************************************)
InitialSeed == 12345

LcgA == 9301

LcgC == 49297

LcgM == 233280

\* seed * 9301 taken mod 233280; the product is split so that no
\* intermediate value leaves the 32-bit range (the double of the code is exact)
MulModM(seed) ==
  ((((seed % LcgM) * 4651) % LcgM) + (((seed % LcgM) * 4650) % LcgM)) % LcgM

\* the modulus taken of the product alone, before the increment is added
LcgNext_ModBeforeAdd(seed) == MulModM(seed) + LcgC

\* seed = (seed * 9301 + 49297) % 233280
LcgNext(seed) == (MulModM(seed) + LcgC) % LcgM

\* return seed / 233280, in fixed point
LcgValue(seed) == (seed * Scale) \div LcgM

RECURSIVE LcgSkip(_, _)
\* the state after n further calls
LcgSkip(seed, n) == IF n = 0 THEN seed ELSE LcgSkip(LcgNext(seed), n - 1)

(***************************************************************************)
(* Render output.  A channel's vector document is the sequence of its      *)
(* elements (attributes as toFixed(2) prints them, in hundredths); its     *)
(* raster surface is the sequence of draw calls made on the canvas context *)
(* (unrounded fixed-point arguments).                                      *)
(***************************************************************************)
NoTransform == [kind |-> "none", deg |-> 0, cx |-> 0, cy |-> 0]

NoAttr == 0 - 1

\* one element of the vector document
El(el, p, fill, sw, tf) == [el |-> el, p |-> p, fill |-> fill, sw |-> sw, tf |-> tf]

\* one draw call on the canvas context
Draw(op, shape, p, lw, tf) == [op |-> op, shape |-> shape, p |-> p, lw |-> lw, tf |-> tf]

\* what a generator hands back: the markup it returns, the draw calls it
\* made, and (for the flow field) the record of the calls made on its behalf
Out(svg, raster) == [svg |-> svg, raster |-> raster, calls |-> <<>>]

NoOut == Out(<<>>, <<>>)

\* values[idx] || 0
Lookup(values, idx) == IF idx \in DOMAIN values THEN values[idx] ELSE 0

(***************************************************************************)
(* GridSampler: HalftonePatterns.applyRotatedGrid.                         *)
(***************************************************************************)
\* Math.sqrt(width * width + height * height)
Diagonal(width, height) == ISqrt((width * width + height * height) * Scale * Scale)

\* iterations of  for (g = -diagonal / 2; g < diagonal / 2; g += spacing)
\* (step is the loop increment in fixed point)
GridCount(diagonal, step) ==
  IF step <= 0 THEN 0 ELSE (diagonal + step - 1) \div step

\* a lattice whose loops start at 0 instead of -diagonal / 2
Grid2_FromZero(diagonal, step, k) == 2 * k * step

\* twice the k-th value of the loop variable (k from 0): 2 * (-diagonal / 2 + k * step)
Grid2(diagonal, step, k) == 2 * k * step - diagonal

\* rotX = xGrid * cosA - yGrid * sinA + width / 2
RotX(x2, y2, angle, width) ==
  (x2 * CosDeg(angle) - y2 * SinDeg(angle)) \div (2 * Scale) + (width * Scale) \div 2

\* rotY = xGrid * sinA + yGrid * cosA + height / 2
RotY(x2, y2, angle, height) ==
  (x2 * SinDeg(angle) + y2 * CosDeg(angle)) \div (2 * Scale) + (height * Scale) \div 2

\* a guard that also admits the right and bottom edge
InCanvas_Closed(rx, ry, width, height) ==
  rx >= 0 /\ rx <= width * Scale /\ ry >= 0 /\ ry <= height * Scale

\* rotX >= 0 && rotX < width && rotY >= 0 && rotY < height
InCanvas(rx, ry, width, height) ==
  rx >= 0 /\ rx < width * Scale /\ ry >= 0 /\ ry < height * Scale

\* pixelY * width + pixelX
PixelIndex(rx, ry, width) == Floor(ry) * width + Floor(rx)

\* the lattice points of the two nested loops, in loop order (yGrid outer,
\* xGrid inner), each with its rotated position
GridPoints(width, height, angle, spacing) ==
  LET d == Diagonal(width, height)
      n == GridCount(d, spacing * Scale)
  IN  [i \in 1..(n * n) |->
        LET y2 == Grid2(d, spacing * Scale, (i - 1) \div n)
            x2 == Grid2(d, spacing * Scale, (i - 1) % n)
        IN  [x |-> RotX(x2, y2, angle, width), y |-> RotY(x2, y2, angle, height)]]

\* what the loop body reads for a retained point: index = pixelY * width +
\* pixelX and intensity = values[index] || 0
SampleAt(q, values, width) ==
  [x |-> q.x, y |-> q.y, idx |-> PixelIndex(q.x, q.y, width),
   intensity |-> Lookup(values, PixelIndex(q.x, q.y, width))]

\* the loop body applied to the retained points, in order
SampleEach(kept, values, width) ==
  [i \in 1..Len(kept) |-> SampleAt(kept[i], values, width)]

\* the points of the lattice that pass the canvas test, with the index and
\* the intensity read for each
Samples(values, width, height, angle, spacing) ==
  SampleEach(SelectSeq(GridPoints(width, height, angle, spacing),
                       LAMBDA q : InCanvas(q.x, q.y, width, height)),
             values, width)

\* svg += elementSvg, and the drawing done on ctx, over the calls in order
Accumulate(outs) ==
  [svg |-> Flatten([i \in 1..Len(outs) |-> outs[i].svg]),
   raster |-> Flatten([i \in 1..Len(outs) |-> outs[i].raster]),
   calls |-> Flatten([i \in 1..Len(outs) |-> outs[i].calls])]

(***************************************************************************)
(* ShapeGenerators of HalftonePatterns.                                    *)
(***************************************************************************)
\* the attribute list of a shape that follows renderStyle
StyleFill(config) == IF config.renderStyle = "stroke" THEN "none" ELSE "group"

StyleWidth(config) ==
  IF config.renderStyle = "stroke" THEN ToFixed2(config.strokeWidth) ELSE NoAttr

StyleOp(config) == IF config.renderStyle = "stroke" THEN "stroke" ELSE "fill"

StyleLineWidth(config) ==
  IF config.renderStyle = "stroke" THEN config.strokeWidth ELSE NoAttr

\* the callback of generateCirclePattern
drawCircle(x, y, intensity, config) ==
  LET radius == (config.dotSize * intensity) \div 2
  IN  IF radius > Half
      THEN Out(<<El("circle", <<ToFixed2(x), ToFixed2(y), ToFixed2(radius)>>,
                    StyleFill(config), StyleWidth(config), NoTransform)>>,
               <<Draw(StyleOp(config), "arc", <<x, y, radius>>,
                      StyleLineWidth(config), NoTransform)>>)
      ELSE NoOut

\* the callback of generateSquarePattern
drawSquare(x, y, intensity, config) ==
  LET size == config.dotSize * intensity
      half == size \div 2
  IN  IF size > Half
      THEN Out(<<El("rect", <<ToFixed2(x - half), ToFixed2(y - half),
                              ToFixed2(size), ToFixed2(size)>>,
                    StyleFill(config), StyleWidth(config), NoTransform)>>,
               <<Draw(StyleOp(config), "rect", <<x - half, y - half, size, size>>,
                      StyleLineWidth(config), NoTransform)>>)
      ELSE NoOut

\* the callback of generateDiamondPattern: the context is translated to
\* (x, y) and rotated by 45 degrees; the element carries rotate(45 x y)
drawDiamond(x, y, intensity, config) ==
  LET size == config.dotSize * intensity
      half == size \div 2
  IN  IF size > Half
      THEN Out(<<El("rect", <<ToFixed2(-half), ToFixed2(-half),
                              ToFixed2(size), ToFixed2(size)>>,
                    StyleFill(config), StyleWidth(config),
                    [kind |-> "rotate-about", deg |-> 45,
                     cx |-> ToFixed2(x), cy |-> ToFixed2(y)])>>,
               <<Draw(StyleOp(config), "rect", <<-half, -half, size, size>>,
                      StyleLineWidth(config),
                      [kind |-> "translate-rotate", deg |-> 45, cx |-> x, cy |-> y])>>)
      ELSE NoOut

\* generateLinePattern: its own copy of the rotated grid loops; a segment of
\* length spacing * 0.8 along lineAngle through every retained point
drawLine(x, y, intensity, config) ==
  LET calculatedLineWidth == config.dotSize * intensity
      finalLineWidth == IF config.renderStyle = "stroke" THEN config.strokeWidth
                        ELSE calculatedLineWidth
      lineLength == (config.spacing * Scale * 8) \div 10
      dx == (CosDeg(config.lineAngle) * lineLength) \div (2 * Scale)
      dy == (SinDeg(config.lineAngle) * lineLength) \div (2 * Scale)
  IN  IF finalLineWidth > Scale \div 5
      THEN Out(<<El("line", <<ToFixed2(x - dx), ToFixed2(y - dy),
                              ToFixed2(x + dx), ToFixed2(y + dy)>>,
                    "currentColor", ToFixed2(finalLineWidth), NoTransform)>>,
               <<Draw("stroke", "segment", <<x - dx, y - dy, x + dx, y + dy>>,
                      finalLineWidth, NoTransform)>>)
      ELSE NoOut

LineEach(smp, config) ==
  [i \in 1..Len(smp) |-> drawLine(smp[i].x, smp[i].y, smp[i].intensity, config)]

generateLinePattern(values, width, height, config) ==
  Accumulate(LineEach(Samples(values, width, height, config.angle, config.spacing), config))

\* iterations of  for (v = 0; v < limit; v += step)  with limit in pixels and
\* step in fixed point
StepCount(limit, step) ==
  IF step <= 0 \/ limit <= 0 THEN 0 ELSE (limit * Scale + step - 1) \div step

\* Math.floor(intensity * 4) + 1
NumLines(intensity) == (intensity * 4) \div Scale + 1

\* a second diagonal that is also drawn at an intensity of exactly 0.5
crosshatchAt_SecondFromHalf(x, y, intensity, config) ==
  LET finalStrokeWidth == IF config.renderStyle = "stroke" THEN config.strokeWidth ELSE Scale
      lineLength == (config.spacing * Scale * 7) \div 10
      numLines == NumLines(intensity)
      dx1 == (CosDeg(45 + config.angle) * lineLength) \div (2 * Scale)
      dy1 == (SinDeg(45 + config.angle) * lineLength) \div (2 * Scale)
      dx2 == (CosDeg(config.angle - 45) * lineLength) \div (2 * Scale)
      dy2 == (SinDeg(config.angle - 45) * lineLength) \div (2 * Scale)
      px == x * Scale
      py == y * Scale
      first(i) ==
        LET offset == (2 * i - numLines) * Scale
        IN  Out(<<El("line", <<ToFixed2(px - dx1 + offset), ToFixed2(py - dy1),
                               ToFixed2(px + dx1 + offset), ToFixed2(py + dy1)>>,
                     "group", ToFixed2(finalStrokeWidth), NoTransform)>>,
                <<Draw("stroke", "segment",
                       <<px - dx1 + offset, py - dy1, px + dx1 + offset, py + dy1>>,
                       finalStrokeWidth, NoTransform)>>)
      second(i) ==
        LET offset == (2 * i - numLines) * Scale
        IN  IF intensity >= Half
            THEN Out(<<El("line", <<ToFixed2(px - dx2), ToFixed2(py - dy2 - offset),
                                    ToFixed2(px + dx2), ToFixed2(py + dy2 - offset)>>,
                          "group", ToFixed2(finalStrokeWidth), NoTransform)>>,
                     <<Draw("stroke", "segment",
                            <<px - dx2, py - dy2 - offset, px + dx2, py + dy2 - offset>>,
                            finalStrokeWidth, NoTransform)>>)
            ELSE NoOut
  IN  IF intensity > Scale \div 10
      THEN Out(Flatten([k \in 1..numLines |-> first(k - 1).svg \o second(k - 1).svg]),
               Flatten([k \in 1..numLines |-> first(k - 1).raster \o second(k - 1).raster]))
      ELSE NoOut

\* the lines of one crosshatch sample at the unrotated grid point (x, y)
\* (whole pixels): line i of the first diagonal is shifted by offset in x,
\* of the second diagonal by -offset in y
crosshatchAt(x, y, intensity, config) ==
  LET finalStrokeWidth == IF config.renderStyle = "stroke" THEN config.strokeWidth ELSE Scale
      lineLength == (config.spacing * Scale * 7) \div 10
      numLines == NumLines(intensity)
      dx1 == (CosDeg(45 + config.angle) * lineLength) \div (2 * Scale)
      dy1 == (SinDeg(45 + config.angle) * lineLength) \div (2 * Scale)
      dx2 == (CosDeg(config.angle - 45) * lineLength) \div (2 * Scale)
      dy2 == (SinDeg(config.angle - 45) * lineLength) \div (2 * Scale)
      px == x * Scale
      py == y * Scale
      first(i) ==
        LET offset == (2 * i - numLines) * Scale
        IN  Out(<<El("line", <<ToFixed2(px - dx1 + offset), ToFixed2(py - dy1),
                               ToFixed2(px + dx1 + offset), ToFixed2(py + dy1)>>,
                     "group", ToFixed2(finalStrokeWidth), NoTransform)>>,
                <<Draw("stroke", "segment",
                       <<px - dx1 + offset, py - dy1, px + dx1 + offset, py + dy1>>,
                       finalStrokeWidth, NoTransform)>>)
      second(i) ==
        LET offset == (2 * i - numLines) * Scale
        IN  IF intensity > Half
            THEN Out(<<El("line", <<ToFixed2(px - dx2), ToFixed2(py - dy2 - offset),
                                    ToFixed2(px + dx2), ToFixed2(py + dy2 - offset)>>,
                          "group", ToFixed2(finalStrokeWidth), NoTransform)>>,
                     <<Draw("stroke", "segment",
                            <<px - dx2, py - dy2 - offset, px + dx2, py + dy2 - offset>>,
                            finalStrokeWidth, NoTransform)>>)
            ELSE NoOut
  IN  IF intensity > Scale \div 10
      THEN Out(Flatten([k \in 1..numLines |-> first(k - 1).svg \o second(k - 1).svg]),
               Flatten([k \in 1..numLines |-> first(k - 1).raster \o second(k - 1).raster]))
      ELSE NoOut

\* generateCrosshatchPattern: an unrotated grid of step spacing from (0, 0)
\* const idx = y * width + x  of the crosshatch loops, x and y whole pixels
crosshatchIndex(x, y, width) == y * width + x

generateCrosshatchPattern(values, width, height, config) ==
  LET nx == StepCount(width, config.spacing * Scale)
      ny == StepCount(height, config.spacing * Scale)
      at(i) ==
        LET y == ((i - 1) \div nx) * config.spacing
            x == ((i - 1) % nx) * config.spacing
        IN  crosshatchAt(x, y, Lookup(values, crosshatchIndex(x, y, width)), config)
  IN  Out(Flatten([i \in 1..(nx * ny) |-> at(i).svg]),
          Flatten([i \in 1..(nx * ny) |-> at(i).raster]))

\* a step that shrinks twice as fast: spacing * (1 - randomness / 100)
BaseSpacing_ToZero(config) == (config.spacing * (100 - config.randomness) * Scale) \div 100

\* baseSpacing = spacing * (1 - randomness / 200)
BaseSpacing(config) == (config.spacing * (200 - config.randomness) * Scale) \div 200

\* (random() - 0.5) * spacing * randomness / 100
Jitter(r, config) == ((r - Half) * config.spacing * config.randomness) \div 100

RECURSIVE stochasticLoop(_, _, _, _, _, _, _, _)
\* the body of the two nested loops of generateStochasticPattern for the
\* i-th point onwards (nx points per row), threading the local generator
stochasticLoop(i, nx, ny, seed, values, width, height, config) ==
  IF i >= nx * ny THEN NoOut
  ELSE
    LET step == BaseSpacing(config)
        y == (i \div nx) * step
        x == (i % nx) * step
        s1 == LcgNext(seed)
        s2 == LcgNext(s1)
        randomX == x + Jitter(LcgValue(s1), config)
        randomY == y + Jitter(LcgValue(s2), config)
        inside == InCanvas(randomX, randomY, width, height)
        intensity == Lookup(values, PixelIndex(randomX, randomY, width))
        s3 == IF inside THEN LcgNext(s2) ELSE s2
        hit == inside /\ LcgValue(s3) < intensity
        s4 == IF hit THEN LcgNext(s3) ELSE s3
        radius == (config.dotSize * Scale) \div 4 + (LcgValue(s4) * config.dotSize) \div 4
        here == IF hit
                THEN Out(<<El("circle", <<ToFixed2(randomX), ToFixed2(randomY), ToFixed2(radius)>>,
                              StyleFill(config), StyleWidth(config), NoTransform)>>,
                         <<Draw(StyleOp(config), "arc", <<randomX, randomY, radius>>,
                                StyleLineWidth(config), NoTransform)>>)
                ELSE NoOut
        rest == stochasticLoop(i + 1, nx, ny, s4, values, width, height, config)
    IN  Out(here.svg \o rest.svg, here.raster \o rest.raster)

\* generateStochasticPattern: let seed = 12345 on every call
generateStochasticPattern(values, width, height, config) ==
  stochasticLoop(0, StepCount(width, BaseSpacing(config)),
                 StepCount(height, BaseSpacing(config)),
                 InitialSeed, values, width, height, config)

\* Math.random(): the engine's generator, whose hidden state the program
\* neither sets nor reads; a call advances the hidden state and returns a
\* value in [0, 1).  The hidden state is chosen by the environment.
MathRandomNext(state) == LcgNext(state)

MathRandomValue(state) == LcgValue(state)

\* const idx = y * width + x  of the stipple loops, x and y in fixed point
stippleIndex(x, y, width) == y * width + x

RECURSIVE stippleLoop(_, _, _, _, _, _, _, _)
\* the body of the two nested loops of generateStipplePattern for the i-th
\* point onwards; mr is the hidden state of Math.random
stippleLoop(i, nx, ny, mr, values, width, height, config) ==
  IF i >= nx * ny THEN NoOut
  ELSE
    LET stippleSpacing == (config.spacing * Scale) \div 2
        y == (i \div nx) * stippleSpacing
        x == (i % nx) * stippleSpacing
        idx == stippleIndex(x, y, width)
        intensity == IF idx % Scale = 0 THEN Lookup(values, idx \div Scale) ELSE 0
        m1 == MathRandomNext(mr)
        big == MathRandomValue(m1) < intensity
        m2 == MathRandomNext(m1)
        m3 == MathRandomNext(m2)
        m4 == MathRandomNext(m3)
        radius == (config.dotSize * Scale) \div 6 + (MathRandomValue(m2) * config.dotSize) \div 6
        dotX == x + ((MathRandomValue(m3) - Half) * stippleSpacing) \div (2 * Scale)
        dotY == y + ((MathRandomValue(m4) - Half) * stippleSpacing) \div (2 * Scale)
        a == IF big THEN m4 ELSE m1
        first == IF big
                 THEN Out(<<El("circle", <<ToFixed2(dotX), ToFixed2(dotY), ToFixed2(radius)>>,
                               StyleFill(config), StyleWidth(config), NoTransform)>>,
                          <<Draw(StyleOp(config), "arc", <<dotX, dotY, radius>>,
                                 StyleLineWidth(config), NoTransform)>>)
                 ELSE NoOut
        b1 == IF intensity > (3 * Scale) \div 10 THEN MathRandomNext(a) ELSE a
        small == intensity > (3 * Scale) \div 10 /\ MathRandomValue(b1) < intensity \div 2
        b2 == MathRandomNext(b1)
        b3 == MathRandomNext(b2)
        smallRadius == (config.dotSize * Scale) \div 12
        smallDotX == x + ((MathRandomValue(b2) - Half) * stippleSpacing) \div Scale
        smallDotY == y + ((MathRandomValue(b3) - Half) * stippleSpacing) \div Scale
        b == IF small THEN b3 ELSE b1
        second == IF small /\ InCanvas(smallDotX, smallDotY, width, height)
                  THEN Out(<<El("circle", <<ToFixed2(smallDotX), ToFixed2(smallDotY),
                                            ToFixed2(smallRadius)>>,
                                StyleFill(config), StyleWidth(config), NoTransform)>>,
                           <<Draw(StyleOp(config), "arc", <<smallDotX, smallDotY, smallRadius>>,
                                  StyleLineWidth(config), NoTransform)>>)
                  ELSE NoOut
        rest == stippleLoop(i + 1, nx, ny, b, values, width, height, config)
    IN  Out(first.svg \o second.svg \o rest.svg, first.raster \o second.raster \o rest.raster)

\* generateStipplePattern: an unrotated grid of step spacing / 2
generateStipplePattern(values, width, height, config, mr) ==
  stippleLoop(0, StepCount(width, (config.spacing * Scale) \div 2),
              StepCount(height, (config.spacing * Scale) \div 2),
              mr, values, width, height, config)

(***************************************************************************)
(* AdvancedPatterns.                                                       *)
(***************************************************************************)
RECURSIVE voronoiPoints(_, _, _, _, _, _, _)
\* the first loop of generateVoronoiPattern from lattice point i on: two
\* draws of this.seedRandom per lattice point, inside the canvas or not.
\* The result is the points and the state the generator is left in.
voronoiPoints(i, n, d, seed, width, height, config) ==
  IF i >= n * n THEN [points |-> <<>>, seed |-> seed]
  ELSE
    LET gridSpacing == (config.spacing * Scale * 3) \div 2
        y2 == Grid2(d, gridSpacing, i \div n)
        x2 == Grid2(d, gridSpacing, i % n)
        s1 == LcgNext(seed)
        s2 == LcgNext(s1)
        jitterX == ((LcgValue(s1) - Half) * config.spacing) \div 2
        jitterY == ((LcgValue(s2) - Half) * config.spacing) \div 2
        pt == [x |-> RotX(x2 + 2 * jitterX, y2 + 2 * jitterY, config.angle, width),
               y |-> RotY(x2 + 2 * jitterX, y2 + 2 * jitterY, config.angle, height)]
        rest == voronoiPoints(i + 1, n, d, s2, width, height, config)
    IN  [points |-> <<pt>> \o rest.points, seed |-> rest.seed]

RECURSIVE voronoiVertices(_, _, _, _)
\* the six vertices of one cell from vertex i on: one draw per vertex
voronoiVertices(i, seed, point, baseRadius) ==
  IF i >= 6 THEN [coords |-> <<>>, seed |-> seed]
  ELSE
    LET s1 == LcgNext(seed)
        radiusVariation == (7 * Scale) \div 10 + (LcgValue(s1) * 6) \div 10
        radius == (baseRadius * radiusVariation) \div Scale
        x == point.x + (CosDeg(i * 60) * radius) \div Scale
        y == point.y + (SinDeg(i * 60) * radius) \div Scale
        rest == voronoiVertices(i + 1, s1, point, baseRadius)
    IN  [coords |-> <<x, y>> \o rest.coords, seed |-> rest.seed]

RECURSIVE voronoiCells(_, _, _, _, _, _)
\* points.forEach of generateVoronoiPattern
voronoiCells(points, seed, values, width, height, config) ==
  IF points = <<>> THEN [svg |-> <<>>, raster |-> <<>>, seed |-> seed]
  ELSE
    LET point == Head(points)
        inside == InCanvas(point.x, point.y, width, height)
        intensity == Lookup(values, PixelIndex(point.x, point.y, width))
        drawn == inside /\ intensity > Scale \div 20
        cell == voronoiVertices(0, seed, point, config.dotSize * intensity)
        after == IF drawn THEN cell.seed ELSE seed
        rest == voronoiCells(Tail(points), after, values, width, height, config)
        here == IF drawn
                THEN Out(<<El("polygon", [k \in 1..12 |-> ToFixed2(cell.coords[k])],
                              StyleFill(config), StyleWidth(config), NoTransform)>>,
                         <<Draw(StyleOp(config), "polygon", cell.coords,
                                StyleLineWidth(config), NoTransform)>>)
                ELSE NoOut
    IN  [svg |-> here.svg \o rest.svg, raster |-> here.raster \o rest.raster,
         seed |-> rest.seed]

\* generateVoronoiPattern: every draw is taken from this.seedRandom, the
\* generator made once by the constructor; seed is its state on entry, and
\* the result carries the state it is left in
generateVoronoiPattern(values, width, height, config, seed) ==
  LET d == Diagonal(width, height)
      n == GridCount(d, (config.spacing * Scale * 3) \div 2)
      pts == voronoiPoints(0, n, d, seed, width, height, config)
      cells == voronoiCells(pts.points, pts.seed, values, width, height, config)
  IN  [svg |-> cells.svg, raster |-> cells.raster, seed |-> cells.seed]

\* rings that fill the dot's diameter instead: the outermost ring has the
\* radius dotSize * intensity / 2
drawConcentric_WithinDiameter(x, y, intensity, config) ==
  LET maxRadius == (config.dotSize * intensity) \div 2
      numRings == NumLines(intensity)
      calculatedStrokeWidth == Max(Half, (maxRadius * 3) \div (numRings * 10))
      finalStrokeWidth == IF config.renderStyle = "stroke" THEN config.strokeWidth
                          ELSE calculatedStrokeWidth
      radius(ring) == (maxRadius * (ring + 1)) \div numRings
  IN  IF intensity > Scale \div 10
      THEN Out([k \in 1..numRings |->
                  El("circle", <<ToFixed2(x), ToFixed2(y), ToFixed2(radius(k - 1))>>,
                     "none+currentColor", ToFixed2(finalStrokeWidth), NoTransform)],
               [k \in 1..numRings |->
                  Draw("stroke", "arc", <<x, y, radius(k - 1)>>, finalStrokeWidth, NoTransform)])
      ELSE NoOut

\* drawConcentric: floor(4 * intensity) + 1 stroked rings; ring k has radius
\* k * maxRadius / numRings
drawConcentric(x, y, intensity, config) ==
  LET maxRadius == config.dotSize * intensity
      numRings == NumLines(intensity)
      calculatedStrokeWidth == Max(Half, (maxRadius * 3) \div (numRings * 10))
      finalStrokeWidth == IF config.renderStyle = "stroke" THEN config.strokeWidth
                          ELSE calculatedStrokeWidth
      radius(ring) == (maxRadius * (ring + 1)) \div numRings
  IN  IF intensity > Scale \div 10
      THEN Out([k \in 1..numRings |->
                  El("circle", <<ToFixed2(x), ToFixed2(y), ToFixed2(radius(k - 1))>>,
                     "none+currentColor", ToFixed2(finalStrokeWidth), NoTransform)],
               [k \in 1..numRings |->
                  Draw("stroke", "arc", <<x, y, radius(k - 1)>>, finalStrokeWidth, NoTransform)])
      ELSE NoOut

\* drawSpiral: one path of floor(turns * 20) + 1 vertices, turns = 3 * intensity + 1;
\* vertex i lies at angle (i / points) * turns * 360 degrees (taken to the
\* whole degree) and radius (i / points) * maxRadius
drawSpiral(x, y, intensity, config) ==
  LET maxRadius == config.dotSize * intensity
      turns == intensity * 3 + Scale
      points == (turns * 20) \div Scale
      angle(i) == (i * turns * 360) \div (points * Scale)
      radius(i) == (i * maxRadius) \div points
      spiralX(i) == x + (CosDeg(angle(i)) * radius(i)) \div Scale
      spiralY(i) == y + (SinDeg(angle(i)) * radius(i)) \div Scale
      calculatedLineWidth == Max(Scale, intensity * 2)
      finalLineWidth == IF config.renderStyle = "stroke" THEN config.strokeWidth
                        ELSE calculatedLineWidth
  IN  IF intensity > Scale \div 10
      THEN Out(<<El("path",
                    Flatten([k \in 1..(points + 1) |->
                               <<ToFixed2(spiralX(k - 1)), ToFixed2(spiralY(k - 1))>>]),
                    "none+currentColor", ToFixed2(finalLineWidth), NoTransform)>>,
               <<Draw("stroke", "path",
                      Flatten([k \in 1..(points + 1) |-> <<spiralX(k - 1), spiralY(k - 1)>>]),
                      finalLineWidth, NoTransform)>>)
      ELSE NoOut

\* drawHexagon: six vertices at 60 degree steps, circumradius dotSize * intensity
drawHexagon(x, y, intensity, config) ==
  LET hexSize == config.dotSize * intensity
      hx(i) == x + (CosDeg(i * 60) * hexSize) \div Scale
      hy(i) == y + (SinDeg(i * 60) * hexSize) \div Scale
  IN  IF intensity > Scale \div 20
      THEN Out(<<El("polygon",
                    Flatten([k \in 1..6 |-> <<ToFixed2(hx(k - 1)), ToFixed2(hy(k - 1))>>]),
                    StyleFill(config), StyleWidth(config), NoTransform)>>,
               <<Draw(StyleOp(config), "polygon",
                      Flatten([k \in 1..6 |-> <<hx(k - 1), hy(k - 1)>>]),
                      StyleLineWidth(config), NoTransform)>>)
      ELSE NoOut

\* drawWave: one dot displaced by a sine of the position projected on lineAngle
\* (the phase is taken to the whole degree)
drawWave(x, y, intensity, config) ==
  LET waveLength == config.spacing * 4 * Scale
      cosL == CosDeg(config.lineAngle)
      sinL == SinDeg(config.lineAngle)
      wavePhase == (((x * cosL - y * sinL) \div Scale) * 360) \div waveLength
      amplitude == config.dotSize * intensity
      displacement == (SinDeg(wavePhase) * amplitude) \div Scale
      dispX == x + (displacement * sinL) \div Scale
      dispY == y + (displacement * cosL) \div Scale
      dotRadius == Max(Scale, (amplitude * 3) \div 10)
  IN  IF intensity > Scale \div 10
      THEN Out(<<El("circle", <<ToFixed2(dispX), ToFixed2(dispY), ToFixed2(dotRadius)>>,
                    StyleFill(config), StyleWidth(config), NoTransform)>>,
               <<Draw(StyleOp(config), "arc", <<dispX, dispY, dotRadius>>,
                      StyleLineWidth(config), NoTransform)>>)
      ELSE NoOut

\* the value an array of holes gives for an index with no entry
Undefined == [x |-> 0, y |-> 0, defined |-> FALSE]

\* the body of the loops of calculateGradientField: the Sobel sums over the
\* eight neighbours (values[..] || 0) and the normalised vector
SobelAt(values, width, x, y) ==
  LET v(dx, dy) == Lookup(values, (y + dy) * width + (x + dx))
      gx == v(1, -1) + 2 * v(1, 0) + v(1, 1) - v(-1, -1) - 2 * v(-1, 0) - v(-1, 1)
      gy == v(-1, 1) + 2 * v(0, 1) + v(1, 1) - v(-1, -1) - 2 * v(0, -1) - v(1, -1)
      magnitude == ISqrt(gx * gx + gy * gy)
  IN  IF magnitude > 0
      THEN [x |-> (gx * Scale) \div magnitude, y |-> (gy * Scale) \div magnitude,
            defined |-> TRUE]
      ELSE [x |-> 0, y |-> 0, defined |-> TRUE]

\* loops that start at 0 and so also fill the top row and the left column
calculateGradientField_FromZero(values, width, height) ==
  [idx \in 0..(width * height - 1) |->
    IF idx % width < width - 1 /\ idx \div width < height - 1
    THEN SobelAt(values, width, idx % width, idx \div width)
    ELSE Undefined]

\* calculateGradientField: new Array(width * height), filled for y in
\* 1..height-2 and x in 1..width-2; every other entry stays empty
calculateGradientField(values, width, height) ==
  [idx \in 0..(width * height - 1) |->
    IF /\ idx % width >= 1 /\ idx % width < width - 1
       /\ idx \div width >= 1 /\ idx \div width < height - 1
    THEN SobelAt(values, width, idx % width, idx \div width)
    ELSE Undefined]

\* what drawFlowField receives when the caller passes no gradients argument
NoGradients == [present |-> FALSE, id |-> 0, at |-> <<>>]

\* a gradients argument: the field and which computation of the call made it
Gradients(id, field) == [present |-> TRUE, id |-> id, at |-> field]

\* gradients[idx] with idx = Math.floor(y) * width + Math.floor(x)
GradientAt(gradients, x, y, width) ==
  IF PixelIndex(x, y, width) \in DOMAIN gradients.at
  THEN gradients.at[PixelIndex(x, y, width)]
  ELSE Undefined

\* what drawFlowField draws and returns once it has a gradient: a segment of
\* length 2 * dotSize * intensity along it and a filled dot at its start
FlowMark(x, y, intensity, config, gradient, called) ==
  LET flowLength == config.dotSize * intensity * 2
      endX == x + (gradient.x * flowLength) \div Scale
      endY == y + (gradient.y * flowLength) \div Scale
      calculatedLineWidth == Max(Half, (intensity * config.dotSize * 3) \div 10)
      finalLineWidth == IF config.renderStyle = "stroke" THEN config.strokeWidth
                        ELSE calculatedLineWidth
  IN  [svg |-> <<El("line", <<ToFixed2(x), ToFixed2(y), ToFixed2(endX), ToFixed2(endY)>>,
                    "currentColor", ToFixed2(finalLineWidth), NoTransform),
                 El("circle", <<ToFixed2(x), ToFixed2(y), ToFixed2(finalLineWidth)>>,
                    "group", NoAttr, NoTransform)>>,
       raster |-> <<Draw("stroke", "segment", <<x, y, endX, endY>>,
                         finalLineWidth, NoTransform),
                    Draw("fill", "arc", <<x, y, finalLineWidth>>,
                         finalLineWidth, NoTransform)>>,
       calls |-> called]

\* a drawFlowField that takes a missing entry for the zero vector
drawFlowField_MissingAsZero(x, y, intensity, config, gradients, width) ==
  IF intensity > Scale \div 10 /\ gradients.present
  THEN FlowMark(x, y, intensity, config, GradientAt(gradients, x, y, width),
                <<[fn |-> "drawFlowField", id |-> gradients.id]>>)
  ELSE [svg |-> <<>>, raster |-> <<>>,
        calls |-> <<[fn |-> "drawFlowField", id |-> gradients.id]>>]

\* drawFlowField: nothing at or below intensity 0.1, without a gradients
\* argument, or where gradients[idx] is missing; else the mark
drawFlowField(x, y, intensity, config, gradients, width) ==
  IF /\ intensity > Scale \div 10
     /\ gradients.present
     /\ GradientAt(gradients, x, y, width).defined
  THEN FlowMark(x, y, intensity, config, GradientAt(gradients, x, y, width),
                <<[fn |-> "drawFlowField", id |-> gradients.id]>>)
  ELSE [svg |-> <<>>, raster |-> <<>>,
        calls |-> <<[fn |-> "drawFlowField", id |-> gradients.id]>>]

(***************************************************************************)
(* HalftonePatterns.applyRotatedGrid and the generators built on it.  A    *)
(* draw function handed to applyRotatedGrid is the method it runs together *)
(* with what its closure captured.                                         *)
(***************************************************************************)
\* a draw function that captures nothing: an arrow callback or method.bind
Method(name) == [name |-> name, gradients |-> NoGradients, width |-> 0]

\* (ctx, x, y, i, cfg) => drawFlowField(ctx, x, y, i, cfg, gradients, width)
WithGradients(gradients, width) ==
  [name |-> "drawFlowField", gradients |-> gradients, width |-> width]

\* coreDrawFn(ctx, rotX, rotY, intensity, config)
callCoreDrawFn(coreDrawFn, x, y, intensity, config) ==
  CASE coreDrawFn.name = "drawCircle" -> drawCircle(x, y, intensity, config)
    [] coreDrawFn.name = "drawSquare" -> drawSquare(x, y, intensity, config)
    [] coreDrawFn.name = "drawDiamond" -> drawDiamond(x, y, intensity, config)
    [] coreDrawFn.name = "drawConcentric" -> drawConcentric(x, y, intensity, config)
    [] coreDrawFn.name = "drawSpiral" -> drawSpiral(x, y, intensity, config)
    [] coreDrawFn.name = "drawHexagon" -> drawHexagon(x, y, intensity, config)
    [] coreDrawFn.name = "drawWave" -> drawWave(x, y, intensity, config)
    [] coreDrawFn.name = "drawFlowField" ->
         drawFlowField(x, y, intensity, config, coreDrawFn.gradients, coreDrawFn.width)

\* applyRotatedGrid: coreDrawFn is called for every retained point, in loop
\* order, and what it returns is accumulated
DrawEach(smp, config, coreDrawFn) ==
  [i \in 1..Len(smp) |->
     callCoreDrawFn(coreDrawFn, smp[i].x, smp[i].y, smp[i].intensity, config)]

applyRotatedGrid(values, width, height, config, coreDrawFn) ==
  Accumulate(DrawEach(Samples(values, width, height, config.angle, config.spacing),
                      config, coreDrawFn))

generateCirclePattern(values, width, height, config) ==
  applyRotatedGrid(values, width, height, config, Method("drawCircle"))

generateSquarePattern(values, width, height, config) ==
  applyRotatedGrid(values, width, height, config, Method("drawSquare"))

generateDiamondPattern(values, width, height, config) ==
  applyRotatedGrid(values, width, height, config, Method("drawDiamond"))

(***************************************************************************)
(* PatternDispatcher: HalftonePatterns.generatePattern.                    *)
(***************************************************************************)
PatternTypes ==
  {"circle", "square", "diamond", "concentric", "spiral", "hexagonal", "wave",
   "flowfield", "voronoi", "line", "crosshatch", "stochastic", "stipple"}

\* case 'flowfield' with the draw function bound without a field
flowfieldCase_Unbound(values, width, height, config) ==
  applyRotatedGrid(values, width, height, config, WithGradients(NoGradients, width))

\* case 'flowfield': the field is computed, then closed over by the draw
\* function handed to applyRotatedGrid
flowfieldCase(values, width, height, config) ==
  LET gradients == Gradients(1, calculateGradientField(values, width, height))
      grid == applyRotatedGrid(values, width, height, config, WithGradients(gradients, width))
  IN  [svg |-> grid.svg, raster |-> grid.raster,
       calls |-> <<[fn |-> "calculateGradientField", id |-> 1]>> \o grid.calls]

\* a switch whose default draws squares
patternBody_DefaultSquare(type, values, width, height, config, seed, mr) ==
  LET keep(o) == [svg |-> o.svg, raster |-> o.raster, calls |-> o.calls, seed |-> seed]
  IN  IF type = "circle" THEN keep(generateCirclePattern(values, width, height, config))
      ELSE keep(generateSquarePattern(values, width, height, config))

\* the switch of generatePattern: what the selected generator returns and
\* draws, and the state this.advancedPatterns.seedRandom is left in
patternBody(type, values, width, height, config, seed, mr) ==
  LET keep(o) == [svg |-> o.svg, raster |-> o.raster, calls |-> o.calls, seed |-> seed]
  IN  CASE type = "circle" -> keep(generateCirclePattern(values, width, height, config))
        [] type = "square" -> keep(generateSquarePattern(values, width, height, config))
        [] type = "diamond" -> keep(generateDiamondPattern(values, width, height, config))
        [] type = "concentric" ->
             keep(applyRotatedGrid(values, width, height, config, Method("drawConcentric")))
        [] type = "spiral" -> keep(applyRotatedGrid(values, width, height, config, Method("drawSpiral")))
        [] type = "hexagonal" -> keep(applyRotatedGrid(values, width, height, config, Method("drawHexagon")))
        [] type = "wave" -> keep(applyRotatedGrid(values, width, height, config, Method("drawWave")))
        [] type = "flowfield" -> keep(flowfieldCase(values, width, height, config))
        [] type = "voronoi" ->
             LET o == generateVoronoiPattern(values, width, height, config, seed)
             IN  [svg |-> o.svg, raster |-> o.raster, calls |-> <<>>, seed |-> o.seed]
        [] type = "line" -> keep(generateLinePattern(values, width, height, config))
        [] type = "crosshatch" -> keep(generateCrosshatchPattern(values, width, height, config))
        [] type = "stochastic" -> keep(generateStochasticPattern(values, width, height, config))
        [] type = "stipple" -> keep(generateStipplePattern(values, width, height, config, mr))
        [] OTHER -> keep(generateCirclePattern(values, width, height, config))

\* generatePattern: the canvas is sized and cleared, the document opened with
\* a white background and one group in the channel colour, the switch run.
\* seed is the state of the instance's seeded generator on entry, mr the
\* hidden state of Math.random.
\* what generatePattern wraps around the switch: the svg element with its
\* white rectangle and coloured group, and the canvas with its fill colour
PatternResult(body, width, height, config) ==
  [svg |-> [width |-> width, height |-> height, background |-> "white",
            color |-> config.color, elements |-> body.svg],
   raster |-> [width |-> width, height |-> height, color |-> config.color,
               draws |-> body.raster],
   calls |-> body.calls,
   seed |-> body.seed]

generatePattern(type, channel, values, width, height, config, seed, mr) ==
  PatternResult(patternBody(type, values, width, height, config, seed, mr),
                width, height, config)

(***************************************************************************)
(* State.                                                                  *)
(***************************************************************************)
VARIABLES
  seedRandom,   \* state of the generator made by the AdvancedPatterns constructor
  args,         \* the arguments a HalftonePatterns instance is called with
  callCount,    \* generatePattern calls made on the instance
  lastCall,     \* what the latest generatePattern call returned and drew
  prevCall,     \* the same for the call before it
  rng,          \* a generator made by createSeededRandom(seed): its state, the
                \* value its latest call returned, and whether it was called
  unitCall,     \* a function called on its own: its name, its arguments, and
                \* what it returned once it has
  uploadedImage,          \* HalftoneApp.uploadedImage: 0 for null, else an image
  loading,                \* the Image whose onload has not fired yet, 0 for none
  ui,                     \* the values of the control panel's inputs
  dom,                    \* upload view shown, process button disabled, overlay shown
  timers,                 \* pending setTimeout callbacks of processImage, oldest first
  inbox,                  \* job messages posted to the worker and not yet received
  outbox,                 \* result messages posted by the worker and not yet handled
  workerResults,          \* HalftoneApp.workerResults
  expectedWorkerResults,  \* HalftoneApp.expectedWorkerResults
  svgData,                \* SVGExporter.svgData
  canvases,               \* the hidden per-channel canvases of the page
  combinedCanvas,         \* the combined preview canvases
  jobLog,                 \* history: the jobs posted, what the worker rendered for
                          \* each, and how many of its results were handled
  events                  \* user input events delivered so far

patVars == <<seedRandom, args, callCount, lastCall, prevCall>>

appVars ==
  <<uploadedImage, loading, ui, dom, timers, inbox, outbox, workerResults,
    expectedWorkerResults, svgData, canvases, combinedCanvas, jobLog, events>>

vars == <<seedRandom, args, callCount, lastCall, prevCall, rng, unitCall, appVars>>

NoCall == [made |-> FALSE]

NoRng == [seed |-> InitialSeed, before |-> InitialSeed, value |-> 0, called |-> FALSE]

NoUnitCall == [fn |-> "none", returned |-> FALSE]

\* a map with no key: {} in the code
EmptyMap == [k \in {} |-> 0]

\* obj[key] = value
Put(map, key, value) ==
  [k \in (DOMAIN map) \cup {key} |-> IF k = key THEN value ELSE map[k]]

\* resetDefaultColors: the values of cyanColor, magentaColor, yellowColor, blackColor
DefaultColors == <<"#00ffff", "#ff00ff", "#ffff00", "#000000">>

\* the control panel as the page starts: CMYK, circles, standard angles, fill
DefaultUi ==
  [colorMode |-> "cmyk", patternType |-> "circle", colors |-> DefaultColors,
   dotSize |-> 8, spacing |-> 12, lineAngle |-> 45, randomness |-> 50, contrast |-> 100,
   renderStyle |-> "fill", strokeWidth |-> Scale, angleOffset |-> TRUE, paperSize |-> "a4"]

NoCanvas == [width |-> 0, height |-> 0, layers |-> <<>>]

\* new HalftoneApp() on a freshly loaded page, the worker idle
AppStart ==
  /\ uploadedImage = 0
  /\ loading = 0
  /\ ui = DefaultUi
  /\ dom = [uploadVisible |-> TRUE, processBtnDisabled |-> TRUE, processing |-> FALSE]
  /\ timers = <<>>
  /\ inbox = <<>>
  /\ outbox = <<>>
  /\ workerResults = EmptyMap
  /\ expectedWorkerResults = 0
  /\ svgData = EmptyMap
  /\ canvases = EmptyMap
  /\ combinedCanvas = NoCanvas
  /\ jobLog = <<>>
  /\ events = 0

(***************************************************************************)
(* Inputs of the pattern engine.                                           *)
(***************************************************************************)
MaxCalls == 2

\* canvas sizes with a spacing of the documented range 5..30
\* and a dot size of the documented range 2..20
CanvasCases ==
  {[width |-> 24, height |-> 24, spacing |-> 12, dotSize |-> 8],
   [width |-> 10, height |-> 10, spacing |-> 5, dotSize |-> 2],
   [width |-> 16, height |-> 12, spacing |-> 8, dotSize |-> 8],
   [width |-> 12, height |-> 24, spacing |-> 6, dotSize |-> 20]}

AngleCases == {0, 15, 45, 90}

\* identifiers the switch has no case for
UnknownTypes == {"fractal", "Circle"}

MapKinds == {"full", "half", "faint", "ramp"}

\* an intensity map: uniformly 1.0, 0.5 or 0.04, or rising from 0 at the
\* left edge to 1 at the right edge
MapOf(kind, width, height) ==
  [idx \in 0..(width * height - 1) |->
    CASE kind = "full" -> Scale
      [] kind = "half" -> Half
      [] kind = "faint" -> Scale \div 25
      [] OTHER -> ((idx % width) * Scale) \div (width - 1)]

\* hidden states Math.random may be in when a call starts
MathRandomStates == {1, 77777}

ConfigOf(case, angle, style) ==
  [dotSize |-> case.dotSize, spacing |-> case.spacing, lineAngle |-> 45, randomness |-> 50,
   renderStyle |-> style, strokeWidth |-> Scale, angle |-> angle, color |-> "#000000"]

PatInit ==
  /\ seedRandom = InitialSeed
  /\ \E type \in PatternTypes \cup UnknownTypes, case \in CanvasCases,
        angle \in AngleCases, kind \in MapKinds, style \in {"fill", "stroke"} :
       args = [type |-> type, channel |-> "key",
               values |-> MapOf(kind, case.width, case.height),
               width |-> case.width, height |-> case.height,
               config |-> ConfigOf(case, angle, style)]
  /\ callCount = 0
  /\ lastCall = NoCall
  /\ prevCall = NoCall
  /\ rng = NoRng
  /\ unitCall = NoUnitCall
  /\ AppStart

\* a gradient computation that smooths the map in place: after a flow-field
\* call every value is the one of the pixel's row start
valuesAfter_SmoothedInPlace(type, values, width, height) ==
  IF type = "flowfield"
  THEN [idx \in DOMAIN values |-> values[(idx \div width) * width]]
  ELSE values

\* the array passed as `values` once generatePattern has returned: the
\* generators and calculateGradientField only read it (values[idx] || 0),
\* none assigns to an index or calls a method of it
valuesAfter(type, values, width, height) == values

\* patterns.generatePattern(type, channel, values, width, height, config, canvas)
CallGeneratePattern ==
  /\ callCount < MaxCalls
  /\ \E mr \in MathRandomStates :
       \E r \in {generatePattern(args.type, args.channel, args.values, args.width,
                                 args.height, args.config, seedRandom, mr)} :
         /\ seedRandom' = r.seed
         /\ lastCall' = [made |-> TRUE, args |-> args, seedBefore |-> seedRandom,
                         svg |-> r.svg, raster |-> r.raster, calls |-> r.calls]
  /\ args' = [args EXCEPT !.values = valuesAfter(args.type, args.values, args.width,
                                                 args.height)]
  /\ prevCall' = lastCall
  /\ callCount' = callCount + 1
  /\ UNCHANGED <<rng, unitCall, appVars>>

PatNext == CallGeneratePattern

SpecPatterns == PatInit /\ [][PatNext]_vars

(***************************************************************************)
(* A seeded generator on its own: createSeededRandom(seed) and its calls.  *)
(***************************************************************************)
MaxSeed == 40

\* seeds createSeededRandom may be given: small ones, the reference value,
\* the values around the modulus, and large ones
SeedCases == (0..MaxSeed) \cup {InitialSeed, LcgM - 1, LcgM, LcgM + 1, 1000003, 2147483647}

RngInit ==
  /\ \E seed \in SeedCases :
       rng = [seed |-> seed, before |-> seed, value |-> 0, called |-> FALSE]
  /\ seedRandom = InitialSeed
  /\ args = NoCall
  /\ callCount = 0
  /\ lastCall = NoCall
  /\ prevCall = NoCall
  /\ unitCall = NoUnitCall
  /\ AppStart

\* one call of the function createSeededRandom returned
SeededRandomCall ==
  /\ rng' = [seed |-> LcgNext(rng.seed), before |-> rng.seed,
             value |-> LcgValue(LcgNext(rng.seed)), called |-> TRUE]
  /\ UNCHANGED <<patVars, unitCall, appVars>>

RngNext == SeededRandomCall

SpecRandom == RngInit /\ [][RngNext]_vars

\* C8: each call of the seeded generator replaces its state by
\* (seed * 9301 + 49297) mod 233280 and returns state / 233280; from any
\* integer seed >= 0 the state after every call is an integer in 0..233279
\* and the value returned lies in [0, 1)
C8_StateAndValueInRange ==
  rng.called =>
    /\ rng.seed \in 0..(LcgM - 1)
    /\ rng.value >= 0 /\ rng.value < Scale
    /\ rng.value * LcgM <= rng.seed * Scale
    /\ rng.seed * Scale < (rng.value + 1) * LcgM
    /\ rng.before < LcgM =>
         rng.seed = (((rng.before * 9000) % LcgM) + ((rng.before * 301) % LcgM) + LcgC) % LcgM

\* a generator built from a seed beyond the modulus has been called, and one
\* built from the reference seed has returned its first value, 96382 / 233280
C8_Witness ==
  /\ rng.called
  /\ \/ rng.before = LcgM + 1 /\ rng.seed = 58598
     \/ rng.before = InitialSeed /\ rng.seed = 96382 /\ rng.value = 413

(***************************************************************************)
(* Claims about the pattern engine, under SpecPatterns.                    *)
(***************************************************************************)
GridTypes ==
  {"circle", "square", "diamond", "concentric", "spiral", "hexagonal", "wave",
   "flowfield", "line"}

\* the latest call sampled the rotated grid (the unknown types fall to circle)
LastOnGrid ==
  lastCall.made /\ (lastCall.args.type \in GridTypes \/ lastCall.args.type \notin PatternTypes)

LastSamples ==
  Samples(lastCall.args.values, lastCall.args.width, lastCall.args.height,
          lastCall.args.config.angle, lastCall.args.config.spacing)

LastLattice ==
  GridPoints(lastCall.args.width, lastCall.args.height,
             lastCall.args.config.angle, lastCall.args.config.spacing)

\* C1: for every pattern type other than stipple, a second generatePattern
\* call on the same HalftonePatterns instance with an identical intensity
\* map, width, height and config returns the vector output of the first call
C1_RepeatedCallSameOutput ==
  (/\ lastCall.made /\ prevCall.made
   /\ lastCall.args = prevCall.args
   /\ lastCall.args.type # "stipple")
    => lastCall.svg = prevCall.svg

\* C6: for a pattern type identifier that is none of the 13 supported ones,
\* generatePattern returns (and draws) exactly what the circle pattern
\* returns for the same intensity map, size and config
C6_UnknownTypeIsCircle ==
  (lastCall.made /\ lastCall.args.type \notin PatternTypes) =>
    LET a == lastCall.args
        ref == generatePattern("circle", a.channel, a.values, a.width, a.height,
                               a.config, lastCall.seedBefore, 1)
    IN  /\ lastCall.svg = ref.svg
        /\ lastCall.raster = ref.raster
        /\ \A i \in 1..Len(lastCall.svg.elements) : lastCall.svg.elements[i].el = "circle"

\* an unknown identifier was rendered and circles came out
C6_Witness ==
  /\ lastCall.made
  /\ lastCall.args.type = "fractal"
  /\ Len(lastCall.svg.elements) >= 4

\* C7: for the flow-field type, generatePattern computes the gradient field
\* exactly once per call, before the first sample is drawn, and every
\* drawFlowField call of that generatePattern call is given that field
C7_GradientFieldOncePerCall ==
  (lastCall.made /\ lastCall.args.type = "flowfield") =>
    /\ Len(lastCall.calls) = 1 + Len(LastSamples)
    /\ lastCall.calls[1].fn = "calculateGradientField"
    /\ \A i \in 2..Len(lastCall.calls) :
         /\ lastCall.calls[i].fn = "drawFlowField"
         /\ lastCall.calls[i].id = lastCall.calls[1].id

\* a flow-field call that sampled several points and drew some of them
C7_Witness ==
  /\ lastCall.made
  /\ lastCall.args.type = "flowfield"
  /\ Len(lastCall.calls) >= 3
  /\ Len(lastCall.svg.elements) >= 2

\* C9: applyRotatedGrid calls the draw function only for lattice points whose
\* rotated position lies in [0, width) x [0, height), and the index
\* floor(rotY) * width + floor(rotX) at which it reads the intensity of such
\* a point lies in 0..width*height-1, for every angle and spacing
C9_SamplesInsideCanvas ==
  LastOnGrid =>
    \A i \in 1..Len(LastSamples) :
      LET q == LastSamples[i]
          w == lastCall.args.width
          h == lastCall.args.height
      IN  /\ q.x >= 0 /\ q.x < w * Scale
          /\ q.y >= 0 /\ q.y < h * Scale
          /\ q.idx = (q.y \div Scale) * w + (q.x \div Scale)
          /\ q.idx \in 0..(w * h - 1)
          /\ q.idx \in DOMAIN lastCall.args.values

\* a rotated grid of which some lattice points were kept and some discarded
C9_Witness ==
  /\ LastOnGrid
  /\ lastCall.args.config.angle = 15
  /\ Len(LastSamples) > 0
  /\ Len(LastSamples) < Len(LastLattice)

\* the case of C10: circles, an unrotated grid, a map uniformly 1.0, and a
\* canvas whose sides are multiples of the spacing
C10_Case ==
  /\ lastCall.made
  /\ lastCall.args.type = "circle"
  /\ lastCall.args.config.angle = 0
  /\ \A i \in DOMAIN lastCall.args.values : lastCall.args.values[i] = Scale
  /\ lastCall.args.width % lastCall.args.config.spacing = 0
  /\ lastCall.args.height % lastCall.args.config.spacing = 0

\* C10: in that case the circle pattern emits exactly
\* (width / spacing) * (height / spacing) circles, exactly one centred in
\* each spacing-by-spacing cell of the canvas, each of radius dotSize / 2
C10_OneCirclePerCell ==
  C10_Case =>
    LET a == lastCall.args
        sp == a.config.spacing
        els == lastCall.svg.elements
        draws == lastCall.raster.draws
    IN  /\ Len(els) = (a.width \div sp) * (a.height \div sp)
        /\ Len(draws) = Len(els)
        /\ \A i \in 1..Len(els) :
             /\ els[i].el = "circle"
             /\ els[i].p[3] = a.config.dotSize * 50
             /\ draws[i].p[3] = (a.config.dotSize * Scale) \div 2
        /\ \A cx \in 0..(a.width \div sp - 1), cy \in 0..(a.height \div sp - 1) :
             Cardinality({i \in 1..Len(draws) :
                            /\ draws[i].p[1] >= cx * sp * Scale
                            /\ draws[i].p[1] < (cx + 1) * sp * Scale
                            /\ draws[i].p[2] >= cy * sp * Scale
                            /\ draws[i].p[2] < (cy + 1) * sp * Scale}) = 1

\* scenario B: 24x24, spacing 12, dotSize 8: four circles of radius 4.00
C10_Witness ==
  /\ C10_Case
  /\ lastCall.args.width = 24 /\ lastCall.args.height = 24
  /\ lastCall.args.config.spacing = 12 /\ lastCall.args.config.dotSize = 8
  /\ Len(lastCall.svg.elements) = 4
  /\ lastCall.svg.elements[1].p[3] = 400

\* the patterns of C11, which draw at most one mark per sample
ThresholdTypes ==
  {"circle", "square", "diamond", "spiral", "hexagonal", "wave", "line", "flowfield"}

\* the documented test of a pattern: radius > 0.5 (circle), size > 0.5
\* (square, diamond), width > 0.2 (line), intensity > 0.1 (spiral, wave,
\* flow-field), intensity > 0.05 (hexagonal)
AboveThreshold(type, intensity, config) ==
  CASE type = "circle" -> config.dotSize * intensity > Scale
    [] type \in {"square", "diamond"} -> config.dotSize * intensity > Half
    [] type = "line" -> config.dotSize * intensity > Scale \div 5
    [] type = "hexagonal" -> intensity > Scale \div 20
    [] OTHER -> intensity > Scale \div 10

\* the elements that make up one primitive: the flow-field mark is a
\* segment with a dot at its origin, every other mark is one element
ElementsPerMark(type) == IF type = "flowfield" THEN 2 ELSE 1

\* the draw function the latest call ran at every retained point
LastDrawFn ==
  CASE lastCall.args.type = "square" -> Method("drawSquare")
    [] lastCall.args.type = "diamond" -> Method("drawDiamond")
    [] lastCall.args.type = "spiral" -> Method("drawSpiral")
    [] lastCall.args.type = "hexagonal" -> Method("drawHexagon")
    [] lastCall.args.type = "wave" -> Method("drawWave")
    [] lastCall.args.type = "concentric" -> Method("drawConcentric")
    [] lastCall.args.type = "flowfield" ->
         WithGradients(Gradients(1, calculateGradientField(lastCall.args.values,
                                      lastCall.args.width, lastCall.args.height)),
                       lastCall.args.width)
    [] OTHER -> Method("drawCircle")

\* what the latest call returned and drew for its i-th retained point
LastMark(i) ==
  IF lastCall.args.type = "line"
  THEN drawLine(LastSamples[i].x, LastSamples[i].y, LastSamples[i].intensity,
                lastCall.args.config)
  ELSE callCoreDrawFn(LastDrawFn, LastSamples[i].x, LastSamples[i].y,
                      LastSamples[i].intensity, lastCall.args.config)

\* the retained points of the latest call that lie above the documented threshold
LastAbove ==
  {i \in 1..Len(LastSamples) :
     AboveThreshold(lastCall.args.type, LastSamples[i].intensity, lastCall.args.config)}

\* C11: for circle, square, diamond, spiral, hexagonal, wave, line and
\* flow-field, in both render styles, a retained sample at or below the
\* documented threshold yields no primitive and no raster draw, and a
\* sample above it yields exactly one primitive
C11_ThresholdDecidesOnePrimitive ==
  (lastCall.made /\ lastCall.args.type \in ThresholdTypes) =>
    /\ \A i \in 1..Len(LastSamples) :
         IF i \in LastAbove
         THEN /\ Len(LastMark(i).svg) = ElementsPerMark(lastCall.args.type)
              /\ Len(LastMark(i).raster) = ElementsPerMark(lastCall.args.type)
         ELSE LastMark(i).svg = <<>> /\ LastMark(i).raster = <<>>
    /\ Len(lastCall.svg.elements) = ElementsPerMark(lastCall.args.type) * Cardinality(LastAbove)
    /\ Len(lastCall.raster.draws) = Len(lastCall.svg.elements)

\* the pixel of a position lies on the one-pixel border of the image
OnBorder(x, y, width, height) ==
  \/ Floor(x) = 0 \/ Floor(x) = width - 1
  \/ Floor(y) = 0 \/ Floor(y) = height - 1

\* the retained points of the latest call whose pixel lies on the border
LastBorder ==
  {i \in 1..Len(LastSamples) :
     OnBorder(LastSamples[i].x, LastSamples[i].y, lastCall.args.width, lastCall.args.height)}

\* C12: a flow-field sample whose pixel lies on the one-pixel border of the
\* image, where the gradient field has no entry, draws nothing and returns
\* no primitive, whatever its intensity: every mark of the output starts at
\* an interior pixel and there is one mark per interior sample above 0.1
C12_BorderSampleDrawsNothing ==
  (lastCall.made /\ lastCall.args.type = "flowfield") =>
    /\ \A i \in LastBorder : LastMark(i).svg = <<>> /\ LastMark(i).raster = <<>>
    /\ \A k \in 1..Len(lastCall.raster.draws) :
         ~OnBorder(lastCall.raster.draws[k].p[1], lastCall.raster.draws[k].p[2],
                   lastCall.args.width, lastCall.args.height)
    /\ Len(lastCall.svg.elements) = 2 * Cardinality(LastAbove \ LastBorder)
    /\ Len(lastCall.raster.draws) = Len(lastCall.svg.elements)

\* a flow-field call with border samples above the intensity threshold and
\* interior samples that were drawn
C12_Witness ==
  /\ lastCall.made
  /\ lastCall.args.type = "flowfield"
  /\ LastAbove \cap LastBorder # {}
  /\ Len(lastCall.svg.elements) >= 2

\* the patterns the lineAngle control is shown for
LineAngleTypes == {"line", "crosshatch", "wave"}

\* values of the lineAngle control other than its default
LineAngleCases == {0, 90, 120}

\* the draw calls of the last call's pattern had the call been made with
\* the given config, everything else as it was
DrawsWith(config) ==
  patternBody(lastCall.args.type, lastCall.args.values, lastCall.args.width,
              lastCall.args.height, config, lastCall.seedBefore, 1).raster

Segments(draws) == {i \in 1..Len(draws) : draws[i].shape = "segment"}

\* the orientations of the marks: end point minus start point of each segment
Orientations(draws) ==
  {<<draws[i].p[3] - draws[i].p[1], draws[i].p[4] - draws[i].p[2]>> : i \in Segments(draws)}

\* where the marks are: twice the midpoint of each segment, and the number
\* of marks of any shape
Positions(draws) ==
  [count |-> Len(draws),
   at |-> {<<draws[i].p[1] + draws[i].p[3], draws[i].p[2] + draws[i].p[4]>> :
             i \in Segments(draws)}]

\* C20: for the line, crosshatch and wave patterns, a config that differs
\* from the one used only in lineAngle gives marks at the same sample
\* positions, and a config that differs only in angle gives marks of the
\* same orientations
C20_AngleAndLineAngleIndependent ==
  (lastCall.made /\ lastCall.args.type \in LineAngleTypes) =>
    /\ \A la \in LineAngleCases :
         Positions(DrawsWith([lastCall.args.config EXCEPT !.lineAngle = la]))
           = Positions(lastCall.raster.draws)
    /\ \A a \in AngleCases :
         LET other == DrawsWith([lastCall.args.config EXCEPT !.angle = a])
         IN  (other # <<>> /\ lastCall.raster.draws # <<>>) =>
               Orientations(other) = Orientations(lastCall.raster.draws)

\* the element name a draw call's shape is written as
ElementOfShape(shape) ==
  CASE shape = "arc" -> "circle"
    [] shape = "segment" -> "line"
    [] OTHER -> shape

\* where the point (px, py) of a primitive's own coordinates lands on the
\* canvas: rotate(deg cx cy) of a vector element turns the point about
\* (cx, cy); translate(cx, cy) then rotate(deg) of the canvas context
\* turns it about the origin and moves it to (cx, cy)
Placed(px, py, tf) ==
  CASE tf.kind = "rotate-about" ->
         <<tf.cx + (CosDeg(tf.deg) * (px - tf.cx) - SinDeg(tf.deg) * (py - tf.cy)) \div Scale,
           tf.cy + (SinDeg(tf.deg) * (px - tf.cx) + CosDeg(tf.deg) * (py - tf.cy)) \div Scale>>
    [] tf.kind = "translate-rotate" ->
         <<tf.cx + (CosDeg(tf.deg) * px - SinDeg(tf.deg) * py) \div Scale,
           tf.cy + (SinDeg(tf.deg) * px + CosDeg(tf.deg) * py) \div Scale>>
    [] OTHER -> <<px, py>>

\* two canvas points in hundredths are the same up to two hundredths
SamePlace(a, b) ==
  /\ a[1] - b[1] <= 2 /\ b[1] - a[1] <= 2
  /\ a[2] - b[2] <= 2 /\ b[2] - a[2] <= 2

\* the element has the geometry of the draw call: the same shape, the same
\* numbers to two decimals, the same rotation, the same place on the canvas
SameGeometry(e, d) ==
  /\ e.el = ElementOfShape(d.shape)
  /\ e.p = [k \in DOMAIN d.p |-> ToFixed2(d.p[k])]
  /\ e.tf.deg = d.tf.deg
  /\ SamePlace(Placed(e.p[1], e.p[2], e.tf),
               Placed(ToFixed2(d.p[1]), ToFixed2(d.p[2]),
                      [d.tf EXCEPT !.cx = ToFixed2(d.tf.cx), !.cy = ToFixed2(d.tf.cy)]))

\* C21: for every pattern type, the vector document of a generatePattern
\* call has as many primitives as the raster surface has draw calls, and
\* primitive i has the geometry (shape, size, orientation and place) of
\* draw call i
C21_VectorMatchesRaster ==
  lastCall.made =>
    /\ Len(lastCall.svg.elements) = Len(lastCall.raster.draws)
    /\ \A i \in 1..Len(lastCall.svg.elements) :
         SameGeometry(lastCall.svg.elements[i], lastCall.raster.draws[i])

RingCount(intensity) == (4 * intensity) \div Scale + 1

\* the rings of sample s: none at or below 0.1; else RingCount circles
\* about the sample point, the k-th of radius k * dotSize * intensity / n
\* (to the unit of the fixed point), the outermost of radius dotSize * intensity
RingsOfSample(s, rings, dotSize) ==
  IF s.intensity <= Scale \div 10 THEN rings = <<>>
  ELSE /\ Len(rings) = RingCount(s.intensity)
       /\ \A k \in 1..Len(rings) :
            /\ rings[k].shape = "arc"
            /\ rings[k].p[1] = s.x /\ rings[k].p[2] = s.y
            /\ rings[k].p[3] * Len(rings) <= k * dotSize * s.intensity
            /\ (rings[k].p[3] + 1) * Len(rings) > k * dotSize * s.intensity
       /\ rings[Len(rings)].p[3] = dotSize * s.intensity

\* C24: the concentric generator draws, for every retained sample above
\* 0.1, floor(4 * intensity) + 1 circles about the sample point with radii
\* k * (dotSize * intensity) / n, the outermost dotSize * intensity, and
\* nothing for a sample at or below 0.1; the output holds these and no more
C24_ConcentricRings ==
  (lastCall.made /\ lastCall.args.type = "concentric") =>
    /\ \A i \in 1..Len(LastSamples) :
         /\ RingsOfSample(LastSamples[i], LastMark(i).raster, lastCall.args.config.dotSize)
         /\ Len(LastMark(i).svg) = Len(LastMark(i).raster)
    /\ Len(lastCall.raster.draws) =
         Cardinality(UNION {{<<i, k>> : k \in 1..RingCount(LastSamples[i].intensity)} :
                              i \in {n \in 1..Len(LastSamples) :
                                       LastSamples[n].intensity > Scale \div 10}})
    /\ Len(lastCall.svg.elements) = Len(lastCall.raster.draws)

\* a concentric call on the rising map: one sample got three rings or
\* more, one got one or two, and one at or below 0.1 got none
C24_Witness ==
  /\ lastCall.made
  /\ lastCall.args.type = "concentric"
  /\ \E i \in 1..Len(LastSamples) : Len(LastMark(i).raster) >= 3
  /\ \E i \in 1..Len(LastSamples) : Len(LastMark(i).raster) \in {1, 2}
  /\ \E i \in 1..Len(LastSamples) : LastMark(i).raster = <<>>

\* the grid of the crosshatch loops: every spacing-th column and row from 0
CrossGrid(width, height, spacing) ==
  {<<x, y>> : x \in {c \in 0..(width - 1) : c % spacing = 0},
              y \in {r \in 0..(height - 1) : r % spacing = 0}}

\* the segments that run along the first diagonal, at 45 degrees to angle:
\* those whose direction has a component along it (the second diagonal is
\* at right angles to the first)
AlongFirst(segs, angle) ==
  {j \in 1..Len(segs) :
     LET along == (segs[j].p[3] - segs[j].p[1]) * CosDeg(45 + angle)
                    + (segs[j].p[4] - segs[j].p[2]) * SinDeg(45 + angle)
     IN  along > Scale * Scale \/ along < -(Scale * Scale)}

\* the number of segments the claim gives a sample of this intensity
CrossCount(intensity) ==
  IF intensity <= Scale \div 10 THEN 0
  ELSE IF intensity > Half THEN 2 * RingCount(intensity) ELSE RingCount(intensity)

\* the segments of one crosshatch sample are as the claim says
CrossOfSample(intensity, segs, angle) ==
  /\ Len(segs) = CrossCount(intensity)
  /\ \A j \in 1..Len(segs) : segs[j].shape = "segment"
  /\ intensity > Scale \div 10 =>
       /\ Cardinality(AlongFirst(segs, angle)) = RingCount(intensity)
       /\ Len(segs) - Cardinality(AlongFirst(segs, angle)) =
            (IF intensity > Half THEN RingCount(intensity) ELSE 0)

\* C25: for a sample with intensity > 0.1 the crosshatch generator emits
\* n = floor(4 * intensity) + 1 first-diagonal segments, and n
\* second-diagonal segments as well exactly if intensity > 0.5; for
\* intensity <= 0.1 it emits none; the output holds these and no more
C25_CrosshatchLineCount ==
  (lastCall.made /\ lastCall.args.type = "crosshatch") =>
    /\ \A q \in CrossGrid(lastCall.args.width, lastCall.args.height,
                          lastCall.args.config.spacing) :
         CrossOfSample(Lookup(lastCall.args.values, q[2] * lastCall.args.width + q[1]),
                       crosshatchAt(q[1], q[2],
                                    Lookup(lastCall.args.values,
                                           q[2] * lastCall.args.width + q[1]),
                                    lastCall.args.config).raster,
                       lastCall.args.config.angle)
    /\ Len(lastCall.raster.draws) =
         Cardinality(UNION {{<<q, k>> :
                              k \in 1..CrossCount(Lookup(lastCall.args.values,
                                                         q[2] * lastCall.args.width + q[1]))} :
                            q \in CrossGrid(lastCall.args.width, lastCall.args.height,
                                            lastCall.args.config.spacing)})
    /\ Len(lastCall.svg.elements) = Len(lastCall.raster.draws)

\* a crosshatch call on the uniform map 0.5: three first-diagonal segments
\* per sample and no second diagonal
C25_Witness ==
  /\ lastCall.made
  /\ lastCall.args.type = "crosshatch"
  /\ lastCall.args.values[0] = Half
  /\ lastCall.args.width = 10 /\ lastCall.args.height = 10
  /\ lastCall.args.config.spacing = 5
  /\ Len(lastCall.raster.draws) = 12

\* the segment drawn for sample s is the one the claim describes: its
\* midpoint is the sample point, its length spacing * 0.8 (to one part in
\* a hundred, the precision of the sine used), it runs along lineAngle,
\* and its stroke width is dotSize * intensity
LineOfSample(s, seg, config) ==
  /\ seg.shape = "segment"
  /\ seg.p[1] + seg.p[3] = 2 * s.x
  /\ seg.p[2] + seg.p[4] = 2 * s.y
  /\ LET ddx == seg.p[3] - seg.p[1]
         ddy == seg.p[4] - seg.p[2]
         long == ISqrt(ddx * ddx + ddy * ddy)
         across == (ddx * SinDeg(config.lineAngle) - ddy * CosDeg(config.lineAngle)) \div Scale
         lineLength == (config.spacing * Scale * 8) \div 10
     IN  /\ (long - lineLength) * 100 \in (-lineLength)..lineLength
         /\ across * 100 \in (-lineLength)..lineLength
         /\ ddx * CosDeg(config.lineAngle) + ddy * SinDeg(config.lineAngle) > 0
  /\ seg.lw = config.dotSize * s.intensity

\* C26: every segment the line pattern emits for a retained sample has
\* its midpoint at the sample point, the length spacing * 0.8, the
\* direction lineAngle and the stroke width dotSize * intensity
C26_LineSegmentGeometry ==
  (lastCall.made /\ lastCall.args.type = "line") =>
    /\ \A i \in 1..Len(LastSamples) :
         /\ Len(LastMark(i).raster) <= 1
         /\ LastMark(i).raster # <<>> =>
              LineOfSample(LastSamples[i], LastMark(i).raster[1], lastCall.args.config)
    /\ Len(lastCall.raster.draws) =
         Cardinality({i \in 1..Len(LastSamples) : LastMark(i).raster # <<>>})

\* the sample points of the stipple loops, in fixed point: every
\* (spacing / 2)-th position from 0 below the width and the height
StipplePoints(width, height, spacing) ==
  {<<i * ((spacing * Scale) \div 2), j * ((spacing * Scale) \div 2)>> :
     i \in 0..(StepCount(width, (spacing * Scale) \div 2) - 1),
     j \in 0..(StepCount(height, (spacing * Scale) \div 2) - 1)}

\* C29: every intensity lookup of the stipple and crosshatch samplers uses
\* a whole-number index, and the index is that of the pixel containing
\* the sample point: floor(y) * width + floor(x)
C29_LookupAddressesSamplePixel ==
  /\ (lastCall.made /\ lastCall.args.type = "stipple") =>
       \A q \in StipplePoints(lastCall.args.width, lastCall.args.height,
                              lastCall.args.config.spacing) :
         /\ stippleIndex(q[1], q[2], lastCall.args.width) % Scale = 0
         /\ stippleIndex(q[1], q[2], lastCall.args.width) \div Scale =
              PixelIndex(q[1], q[2], lastCall.args.width)
  /\ (lastCall.made /\ lastCall.args.type = "crosshatch") =>
       \A q \in CrossGrid(lastCall.args.width, lastCall.args.height,
                          lastCall.args.config.spacing) :
         crosshatchIndex(q[1], q[2], lastCall.args.width) =
           PixelIndex(q[1] * Scale, q[2] * Scale, lastCall.args.width)

(***************************************************************************)
(* The two nested sampling loops of a generator on their own, one           *)
(* iteration at a time:  for (y = start; y < limitY; y += step)             *)
(*                         for (x = start; x < limitX; x += step) body      *)
(***************************************************************************)
\* the range inputs of the control panel: spacing min="5" max="30",
\* randomness min="0" max="100"
MinSpacing == 5

MaxSpacing == 30

MaxRandomness == 100

\* the randomness input's value="30"
DefaultRandomness == 30

\* iterations of the loop body after which a run is cut off
MaxIterations == 40

\* the generators whose loops run over the lattice -diagonal / 2 .. diagonal / 2
DiagonalTypes ==
  {"circle", "square", "diamond", "concentric", "spiral", "hexagonal", "wave",
   "flowfield", "voronoi", "line"}

\* the loop increment of the generator of a pattern type, in fixed point
LoopStepOf(type, config) ==
  CASE type = "voronoi" -> (config.spacing * Scale * 3) \div 2
    [] type = "stochastic" -> BaseSpacing(config)
    [] type = "stipple" -> (config.spacing * Scale) \div 2
    [] OTHER -> config.spacing * Scale

\* the initial value of both loop variables
LoopStartOf(type, width, height) ==
  IF type \in DiagonalTypes THEN 0 - Diagonal(width, height) \div 2 ELSE 0

\* the bound of a loop over a canvas side (width for x, height for y)
LoopLimit(type, side, width, height) ==
  IF type \in DiagonalTypes THEN Diagonal(width, height) \div 2 ELSE side * Scale

LoopInit ==
  /\ \E type \in PatternTypes, canvas \in {[width |-> 10, height |-> 10], [width |-> 16, height |-> 12]}, spacing \in MinSpacing..MaxSpacing :
       \E randomness \in (IF type = "stochastic" THEN 0..MaxRandomness
                          ELSE {DefaultRandomness}) :
         unitCall = [fn |-> "sampling", type |-> type,
                     width |-> canvas.width, height |-> canvas.height,
                     config |-> [spacing |-> spacing, randomness |-> randomness],
                     x |-> LoopStartOf(type, canvas.width, canvas.height),
                     y |-> LoopStartOf(type, canvas.width, canvas.height),
                     iterations |-> 0, returned |-> FALSE]
  /\ seedRandom = InitialSeed
  /\ args = NoCall
  /\ callCount = 0
  /\ lastCall = NoCall
  /\ prevCall = NoCall
  /\ rng = NoRng
  /\ AppStart

\* x < limitX holds: the body runs once, then x += step
LoopBody ==
  /\ unitCall.fn = "sampling" /\ ~unitCall.returned
  /\ unitCall.y < LoopLimit(unitCall.type, unitCall.height, unitCall.width, unitCall.height)
  /\ unitCall.x < LoopLimit(unitCall.type, unitCall.width, unitCall.width, unitCall.height)
  /\ unitCall.iterations < MaxIterations
  /\ unitCall' = [unitCall EXCEPT !.x = @ + LoopStepOf(unitCall.type, unitCall.config),
                                  !.iterations = @ + 1]
  /\ UNCHANGED <<patVars, rng, appVars>>

\* x < limitX fails: the inner loop is left, y += step, and the inner loop
\* starts again
LoopNextRow ==
  /\ unitCall.fn = "sampling" /\ ~unitCall.returned
  /\ unitCall.y < LoopLimit(unitCall.type, unitCall.height, unitCall.width, unitCall.height)
  /\ unitCall.x >= LoopLimit(unitCall.type, unitCall.width, unitCall.width, unitCall.height)
  /\ unitCall' = [unitCall EXCEPT !.y = @ + LoopStepOf(unitCall.type, unitCall.config),
                                  !.x = LoopStartOf(unitCall.type, unitCall.width,
                                                    unitCall.height)]
  /\ UNCHANGED <<patVars, rng, appVars>>

\* y < limitY fails: the outer loop is left
LoopExit ==
  /\ unitCall.fn = "sampling" /\ ~unitCall.returned
  /\ unitCall.y >= LoopLimit(unitCall.type, unitCall.height, unitCall.width, unitCall.height)
  /\ unitCall' = [unitCall EXCEPT !.returned = TRUE]
  /\ UNCHANGED <<patVars, rng, appVars>>

LoopNext == LoopBody \/ LoopNextRow \/ LoopExit

\* the loops are straight-line code of one call: a step that can be taken
\* is taken
SpecSamplingLive == LoopInit /\ [][LoopNext]_vars /\ WF_vars(LoopNext)

\* the number of times the generators of the model run the loop body
BodyRuns(type, width, height, config) ==
  IF type \in DiagonalTypes
  THEN GridCount(Diagonal(width, height), LoopStepOf(type, config))
         * GridCount(Diagonal(width, height), LoopStepOf(type, config))
  ELSE StepCount(width, LoopStepOf(type, config))
         * StepCount(height, LoopStepOf(type, config))

\* C30: for every spacing in 5..30 and randomness in 0..100 the loop
\* increment of every pattern type is strictly positive, and the two
\* nested sampling loops come to an end
C30_SamplingLoopsTerminate ==
  /\ [](unitCall.fn = "sampling" => LoopStepOf(unitCall.type, unitCall.config) > 0)
  /\ <>(unitCall.fn = "sampling" /\ unitCall.returned)

\* the stochastic loops at randomness 100 and spacing 5 have ended, after
\* as many runs of the body as the generator makes
C30_Witness ==
  /\ unitCall.fn = "sampling" /\ unitCall.returned
  /\ unitCall.type = "stochastic"
  /\ unitCall.config.randomness = MaxRandomness
  /\ unitCall.config.spacing = MinSpacing
  /\ unitCall.iterations > 0
  /\ unitCall.iterations < MaxIterations
  /\ unitCall.iterations =
       BodyRuns(unitCall.type, unitCall.width, unitCall.height, unitCall.config)

(***************************************************************************)
(* Colour separation (colorUtils.js).  A pixel buffer is a function from   *)
(* the pixel number to its bytes <<r, g, b, a>>.                           *)
(***************************************************************************)
\* the contrast formula without the clamp
AdjustContrast_NoClamp(byte, contrast) ==
  (((byte * Scale) \div 255 - Half) * contrast) \div 100 + Half

\* (data[i] / 255 - 0.5) * contrastFactor + 0.5, clamped to [0, 1]
AdjustContrast(byte, contrast) ==
  Clamp01((((byte * Scale) \div 255 - Half) * contrast) \div 100 + Half)

\* a loop that stops one pixel early, as  i < data.length - 4  would
rgbToGrayscale_StopsEarly(data, contrast) ==
  [i \in (DOMAIN data) \ {Cardinality(DOMAIN data) - 1} |->
    Scale - (299 * AdjustContrast(data[i][1], contrast)
             + 587 * AdjustContrast(data[i][2], contrast)
             + 114 * AdjustContrast(data[i][3], contrast)) \div 1000]

\* rgbToGrayscale: for (i = 0; i < data.length; i += 4) one value is pushed,
\* 1 - (0.299 r + 0.587 g + 0.114 b) of the contrast-adjusted pixel
rgbToGrayscale(data, contrast) ==
  [i \in DOMAIN data |->
    LET r == AdjustContrast(data[i][1], contrast)
        g == AdjustContrast(data[i][2], contrast)
        b == AdjustContrast(data[i][3], contrast)
        luminance == (299 * r + 587 * g + 114 * b) \div 1000
    IN  Scale - luminance]

rgbToMultiTone(data, numTones, contrast) ==
  LET grayscale == rgbToGrayscale(data, contrast)
  IN  IF numTones = 2
      THEN [tone1 |-> [i \in DOMAIN data |-> ISqrt(grayscale[i] * Scale)],
            tone2 |-> [i \in DOMAIN data |-> Scale - ISqrt((Scale - grayscale[i]) * Scale)]]
      ELSE [tone1 |-> grayscale,
            tone2 |-> [i \in DOMAIN data |-> SinDeg((grayscale[i] * 180) \div Scale)],
            tone3 |-> [i \in DOMAIN data |-> Scale - grayscale[i]]]

\* an ink that is full where no light is left, instead of the guarded 0
inkOf_FullAtBlack(v, k_val) ==
  IF k_val < Scale THEN ((Scale - v - k_val) * Scale) \div (Scale - k_val) ELSE Scale

\* c_val, m_val, y_val: (k_val < 1) ? (1 - v - k_val) / (1 - k_val) : 0
inkOf(v, k_val) ==
  IF k_val < Scale THEN ((Scale - v - k_val) * Scale) \div (Scale - k_val) ELSE 0

\* a conversion that takes no black out of the inks: c = 1 - r, m = 1 - g, y = 1 - b
cmykOf_NoBlackRemoval(px, contrast) ==
  [c |-> Scale - AdjustContrast(px[1], contrast),
   m |-> Scale - AdjustContrast(px[2], contrast),
   y |-> Scale - AdjustContrast(px[3], contrast),
   k |-> Scale - Max(AdjustContrast(px[1], contrast),
                     Max(AdjustContrast(px[2], contrast), AdjustContrast(px[3], contrast)))]

\* one pixel of rgbToCmyk: k = 1 - max(r, g, b); c, m, y = (1 - v - k) / (1 - k),
\* or 0 when k is not below 1; all four clamped to [0, 1]
cmykOf(px, contrast) ==
  LET r == AdjustContrast(px[1], contrast)
      g == AdjustContrast(px[2], contrast)
      b == AdjustContrast(px[3], contrast)
      k_val == Scale - Max(r, Max(g, b))
  IN  [c |-> Clamp01(inkOf(r, k_val)), m |-> Clamp01(inkOf(g, k_val)),
       y |-> Clamp01(inkOf(b, k_val)), k |-> Clamp01(k_val)]

rgbToCmyk(data, width, height, contrast) ==
  [c |-> [i \in DOMAIN data |-> cmykOf(data[i], contrast).c],
   m |-> [i \in DOMAIN data |-> cmykOf(data[i], contrast).m],
   y |-> [i \in DOMAIN data |-> cmykOf(data[i], contrast).y],
   k |-> [i \in DOMAIN data |-> cmykOf(data[i], contrast).k]]

(***************************************************************************)
(* calculateGradientField on its own, on the intensity map rgbToGrayscale  *)
(* gives for a small image.                                                *)
(***************************************************************************)
MaxSide == 6

GradientImages == {"horizontal", "vertical", "flat", "diagonal"}

\* an opaque grey image: white at the left going to black at the right,
\* white at the top going to black at the bottom, mid grey throughout, or
\* white at the top left going to black at the bottom right
GreyImage(kind, width, height) ==
  [i \in 0..(width * height - 1) |->
    LET x == i % width
        y == i \div width
        v == CASE kind = "horizontal" -> 255 - (x * 255) \div Max(1, width - 1)
               [] kind = "vertical" -> 255 - (y * 255) \div Max(1, height - 1)
               [] kind = "flat" -> 128
               [] OTHER -> 255 - ((x + y) * 255) \div Max(1, width + height - 2)
    IN  <<v, v, v, 255>>]

ContrastCases == {50, 100, 200}

GradInit ==
  /\ \E width \in 1..MaxSide, height \in 1..MaxSide, kind \in GradientImages,
        contrast \in ContrastCases :
       unitCall = [fn |-> "calculateGradientField", image |-> kind, contrast |-> contrast,
                   values |-> rgbToGrayscale(GreyImage(kind, width, height), contrast),
                   width |-> width, height |-> height,
                   returned |-> FALSE, result |-> <<>>]
  /\ seedRandom = InitialSeed
  /\ args = NoCall
  /\ callCount = 0
  /\ lastCall = NoCall
  /\ prevCall = NoCall
  /\ rng = NoRng
  /\ AppStart

\* this.advancedPatterns.calculateGradientField(values, width, height)
CallCalculateGradientField ==
  /\ unitCall.fn = "calculateGradientField"
  /\ ~unitCall.returned
  /\ unitCall' = [unitCall EXCEPT
                    !.returned = TRUE,
                    !.result = calculateGradientField(unitCall.values, unitCall.width,
                                                      unitCall.height)]
  /\ UNCHANGED <<patVars, rng, appVars>>

GradNext == CallCalculateGradientField

SpecGradient == GradInit /\ [][GradNext]_vars

GradientReturned == unitCall.fn = "calculateGradientField" /\ unitCall.returned

\* pixel (x, y) has a full 3x3 neighbourhood
Interior(x, y, width, height) ==
  x >= 1 /\ x < width - 1 /\ y >= 1 /\ y < height - 1

\* C13: the field calculateGradientField returns has width * height entries
\* and the entry of pixel (x, y) is defined if and only if 1 <= x < width-1
\* and 1 <= y < height-1, for every width and height, sizes below 3 included
C13_DefinedExactlyInInterior ==
  GradientReturned =>
    /\ DOMAIN unitCall.result = 0..(unitCall.width * unitCall.height - 1)
    /\ \A x \in 0..(unitCall.width - 1), y \in 0..(unitCall.height - 1) :
         unitCall.result[y * unitCall.width + x].defined
           <=> Interior(x, y, unitCall.width, unitCall.height)

\* a 3x3 field: the centre entry is defined, the eight around it are not
C13_Witness ==
  /\ GradientReturned
  /\ unitCall.width = 3 /\ unitCall.height = 3
  /\ unitCall.result[4].defined
  /\ \A i \in (0..8) \ {4} : ~unitCall.result[i].defined

\* C14: for the intensity map of a horizontal gradient image (white at the
\* left, black at the right, constant along each column) the vector at every
\* interior pixel has a negative x component and a y component of 0
C14_HorizontalGradientPointsMinusX ==
  (GradientReturned /\ unitCall.image = "horizontal") =>
    \A x \in 0..(unitCall.width - 1), y \in 0..(unitCall.height - 1) :
      Interior(x, y, unitCall.width, unitCall.height) =>
        /\ unitCall.result[y * unitCall.width + x].x < 0
        /\ unitCall.result[y * unitCall.width + x].y = 0

(***************************************************************************)
(* The worker (worker.js): separation, then one render per channel name.   *)
(***************************************************************************)
\* channelData = { tone1: duo.tone1, tone2: duo.tone2 }
DuotoneData(duo) == [tone1 |-> duo.tone1, tone2 |-> duo.tone2]

\* channelData = { shadows: tri.tone1, midtones: tri.tone2, highlights: tri.tone3 }
TritoneData(tri) == [shadows |-> tri.tone1, midtones |-> tri.tone2, highlights |-> tri.tone3]

\* channelData = { cyan: cmyk.c, magenta: cmyk.m, yellow: cmyk.y, black: cmyk.k }
CmykData(cmyk) == [cyan |-> cmyk.c, magenta |-> cmyk.m, yellow |-> cmyk.y, black |-> cmyk.k]

\* a separation that leaves a tone1 map in the monochrome channelData
separate_ExtraChannel(config, imageData) ==
  CASE config.colorMode = "monochrome" ->
         [key |-> rgbToGrayscale(imageData.data, config.contrast),
          tone1 |-> rgbToGrayscale(imageData.data, config.contrast)]
    [] config.colorMode = "duotone" ->
         DuotoneData(rgbToMultiTone(imageData.data, 2, config.contrast))
    [] config.colorMode = "tritone" ->
         TritoneData(rgbToMultiTone(imageData.data, 3, config.contrast))
    [] OTHER ->
         CmykData(rgbToCmyk(imageData.data, imageData.width, imageData.height,
                            config.contrast))

\* step 1 of onmessage: channelData, by colour mode (CMYK is also the default)
separate(config, imageData) ==
  CASE config.colorMode = "monochrome" ->
         [key |-> rgbToGrayscale(imageData.data, config.contrast)]
    [] config.colorMode = "duotone" ->
         DuotoneData(rgbToMultiTone(imageData.data, 2, config.contrast))
    [] config.colorMode = "tritone" ->
         TritoneData(rgbToMultiTone(imageData.data, 3, config.contrast))
    [] OTHER ->
         CmykData(rgbToCmyk(imageData.data, imageData.width, imageData.height,
                            config.contrast))

\* { ...config, angle: config.angles[channel] || 0, color: config.colors[channel] }
channelConfig(config, channel) ==
  [dotSize |-> config.dotSize, spacing |-> config.spacing, lineAngle |-> config.lineAngle,
   randomness |-> config.randomness, renderStyle |-> config.renderStyle,
   strokeWidth |-> config.strokeWidth,
   angle |-> IF channel \in DOMAIN config.angles THEN config.angles[channel] ELSE 0,
   color |-> config.colors[channel]]

\* a loop that is cut short after the iteration that posted: nothing of
\* the later iterations is posted
PostResult_CutShort(r, rest, channel, seed, job) ==
  [results |-> <<[channel |-> channel, svg |-> r.svg, imageBitmap |-> r.raster,
                  job |-> job]>>,
   seeds |-> <<seed>> \o rest.seeds,
   seed |-> rest.seed]

\* self.postMessage({ channel, svg, imageBitmap }) of one iteration, put
\* before what the later iterations post; seed is the generator state the
\* iteration started in, job the number of the job the message belongs to
PostResult(r, rest, channel, seed, job) ==
  [results |-> <<[channel |-> channel, svg |-> r.svg, imageBitmap |-> r.raster,
                  job |-> job]>> \o rest.results,
   seeds |-> <<seed>> \o rest.seeds,
   seed |-> rest.seed]

RECURSIVE renderChannels(_, _, _, _, _, _)
\* the iterations after one whose generatePattern call returned r
RenderRest(r, names, channelData, imageData, config, seed, job) ==
  PostResult(r, renderChannels(Tail(names), channelData, imageData, config, r.seed, job),
             Head(names), seed, job)

\* step 2 of onmessage: config.channelNames.forEach, each iteration a
\* generatePattern call on the one `patterns` instance and a postMessage.
\* seed is the state of that instance's seeded generator before the
\* iteration; job numbers the job, and the messages posted carry it.
renderChannels(names, channelData, imageData, config, seed, job) ==
  IF names = <<>> THEN [results |-> <<>>, seeds |-> <<>>, seed |-> seed]
  ELSE RenderRest(generatePattern(config.patternType, Head(names),
                                  channelData[Head(names)], imageData.width,
                                  imageData.height,
                                  channelConfig(config, Head(names)), seed, 1),
                  names, channelData, imageData, config, seed, job)

\* step 2 of onmessage on the channelData of step 1; channels are the
\* keys of channelData
renderAll(channelData, config, imageData, seed, job) ==
  renderChannels(config.channelNames, channelData, imageData, config, seed, job)
    @@ [channels |-> DOMAIN channelData]

\* onmessage as a function of the message and the generator state on entry
onmessage(config, imageData, seed, job) ==
  renderAll(separate(config, imageData), config, imageData, seed, job)

(***************************************************************************)
(* Step 1 of the worker's onmessage on its own: the colour separation of   *)
(* a pixel buffer under a colour mode and a contrast.                      *)
(***************************************************************************)
MaxPixels == 3

\* byte values: the ends, their neighbours, the two sides of the midpoint
\* and two values between
ByteCases == {0, 1, 64, 127, 128, 200, 254, 255}

\* the pixels longer buffers are made of: black, white, the greys around the
\* midpoint, an orange, a dark blue, and a transparent red
PixelCases ==
  {<<0, 0, 0, 255>>, <<255, 255, 255, 255>>, <<128, 128, 128, 255>>,
   <<127, 127, 127, 255>>, <<230, 120, 30, 255>>, <<10, 20, 90, 255>>,
   <<255, 0, 0, 0>>}

\* a buffer of n pixels as the function from the pixel number to its bytes
BufferOf(pixels) == [i \in 0..(Len(pixels) - 1) |-> pixels[i + 1]]

RECURSIVE PixelSeqs(_)
\* the sequences of n pixels of PixelCases
PixelSeqs(n) ==
  IF n = 0 THEN {<<>>}
  ELSE {<<p>> \o rest : p \in PixelCases, rest \in PixelSeqs(n - 1)}

\* the buffers separated: every one-pixel buffer over ByteCases, and the
\* buffers of 0 and of 2..MaxPixels pixels over PixelCases
BufferCases ==
  {BufferOf(<<(<<r, g, b, 255>>)>>) : r \in ByteCases, g \in ByteCases, b \in ByteCases}
    \cup {BufferOf(ps) : ps \in UNION {PixelSeqs(n) : n \in {0} \cup (2..MaxPixels)}}

ColorModes == {"monochrome", "duotone", "tritone", "cmyk"}

SepInit ==
  /\ \E mode \in ColorModes, contrast \in ContrastCases, data \in BufferCases :
       unitCall = [fn |-> "separate",
                   config |-> [colorMode |-> mode, contrast |-> contrast],
                   imageData |-> [data |-> data, width |-> Cardinality(DOMAIN data),
                                  height |-> 1],
                   returned |-> FALSE, result |-> <<>>]
  /\ seedRandom = InitialSeed
  /\ args = NoCall
  /\ callCount = 0
  /\ lastCall = NoCall
  /\ prevCall = NoCall
  /\ rng = NoRng
  /\ AppStart

\* the switch on config.colorMode of onmessage has run
CallSeparate ==
  /\ unitCall.fn = "separate"
  /\ ~unitCall.returned
  /\ unitCall' = [unitCall EXCEPT !.returned = TRUE,
                                  !.result = separate(unitCall.config, unitCall.imageData)]
  /\ UNCHANGED <<patVars, rng, appVars>>

SepNext == CallSeparate

SpecSeparation == SepInit /\ [][SepNext]_vars

Separated == unitCall.fn = "separate" /\ unitCall.returned

\* the contrast-adjusted r, g, b of pixel i of the separated buffer
AdjustedOf(i) ==
  [r |-> AdjustContrast(unitCall.imageData.data[i][1], unitCall.config.contrast),
   g |-> AdjustContrast(unitCall.imageData.data[i][2], unitCall.config.contrast),
   b |-> AdjustContrast(unitCall.imageData.data[i][3], unitCall.config.contrast)]

\* |a - b| is at most two units of the fixed point
Near(a, b) == a - b <= 2 /\ b - a <= 2

\* C15: in every colour mode, for every RGBA byte input and every contrast
\* in 50..200, each value of each channel map produced by the colour
\* separation lies in [0, 1]
C15_ChannelValuesInUnitInterval ==
  Separated =>
    \A ch \in DOMAIN unitCall.result :
      \A i \in DOMAIN unitCall.result[ch] :
        unitCall.result[ch][i] >= 0 /\ unitCall.result[ch][i] <= Scale

\* an orange pixel at contrast 200, where the clamp acts on red and on
\* blue, separated to CMYK
C15_Witness ==
  /\ Separated
  /\ unitCall.config = [colorMode |-> "cmyk", contrast |-> 200]
  /\ unitCall.imageData.data = BufferOf(<<(<<255, 128, 0, 255>>)>>)
  /\ unitCall.result.black[0] = 0
  /\ unitCall.result.yellow[0] = Scale

\* C16: for every pixel and contrast, with r, g, b the contrast-adjusted
\* inputs and c, m, y, k what rgbToCmyk returns for the pixel,
\* (1-c)(1-k) = r, (1-m)(1-k) = g and (1-y)(1-k) = b up to tolerance
C16_CmykReconstructsRgb ==
  (Separated /\ unitCall.config.colorMode = "cmyk") =>
    \A i \in DOMAIN unitCall.imageData.data :
      LET rest == Scale - unitCall.result.black[i]
      IN  /\ Near(((Scale - unitCall.result.cyan[i]) * rest) \div Scale, AdjustedOf(i).r)
          /\ Near(((Scale - unitCall.result.magenta[i]) * rest) \div Scale, AdjustedOf(i).g)
          /\ Near(((Scale - unitCall.result.yellow[i]) * rest) \div Scale, AdjustedOf(i).b)

\* a coloured pixel with black in it, separated to CMYK at contrast 100
C16_Witness ==
  /\ Separated
  /\ unitCall.config = [colorMode |-> "cmyk", contrast |-> 100]
  /\ unitCall.imageData.data = BufferOf(<<(<<200, 64, 128, 255>>)>>)
  /\ unitCall.result.black[0] > 0
  /\ unitCall.result.magenta[0] > unitCall.result.yellow[0]
  /\ unitCall.result.yellow[0] > unitCall.result.cyan[0]

AloneOf(i) ==
  separate(unitCall.config,
           [data |-> BufferOf(<<unitCall.imageData.data[i]>>), width |-> 1, height |-> 1])

\* C18: for a buffer of n pixels every channel map, in every colour mode,
\* has exactly the n entries 0..n-1, and entry i is what the bytes of
\* pixel i alone give
C18_OneEntryPerPixel ==
  Separated =>
    \A ch \in DOMAIN unitCall.result :
      /\ DOMAIN unitCall.result[ch] = DOMAIN unitCall.imageData.data
      /\ \A i \in DOMAIN unitCall.imageData.data :
           unitCall.result[ch][i] = AloneOf(i)[ch][0]

\* three different pixels separated to three tone maps of three entries
C18_Witness ==
  /\ Separated
  /\ unitCall.config.colorMode = "tritone"
  /\ unitCall.imageData.data =
       BufferOf(<<(<<0, 0, 0, 255>>), (<<230, 120, 30, 255>>), (<<255, 255, 255, 255>>)>>)
  /\ DOMAIN unitCall.result.midtones = 0..2
  /\ unitCall.result.shadows[0] = Scale
  /\ unitCall.result.shadows[2] = 0

(***************************************************************************)
(* The main thread (HalftoneApp, SVGExporter, ColorManager).               *)
(***************************************************************************)
MaxEvents == 3

\* the image files a user may upload
ImageIds == {1}

ImageWidth(id) == IF id = 1 THEN 16 ELSE 12

ImageHeight(id) == IF id = 1 THEN 16 ELSE 8

\* image 1 is a grey ramp from black at the left to white at the right,
\* image 2 a uniform orange
ImageBytes(id) ==
  [i \in 0..(ImageWidth(id) * ImageHeight(id) - 1) |->
    IF id = 1
    THEN LET v == ((i % ImageWidth(id)) * 255) \div (ImageWidth(id) - 1)
         IN  <<v, v, v, 255>>
    ELSE <<230, 120, 30, 255>>]

\* getImageData of a fully loaded image.  A message in flight carries the
\* number of the image, which stands for these pixels.
getImageData(id) ==
  [width |-> ImageWidth(id), height |-> ImageHeight(id), data |-> ImageBytes(id)]

\* autoAdjustSpacing: the value it writes to the spacing input
autoAdjustSpacing(width, height) ==
  IF width * height > 1000000 THEN 15
  ELSE IF width * height < 400000 THEN 8 ELSE 12

\* the colour modes the user selects in this development
AppColorModes == {"monochrome", "duotone", "tritone", "cmyk"}

\* the pattern types the user selects in this development
AppPatternTypes == {"circle", "voronoi"}

numChannels(colorMode) ==
  CASE colorMode = "monochrome" -> 1
    [] colorMode = "duotone" -> 2
    [] colorMode = "tritone" -> 3
    [] OTHER -> 4

genericChannelNames(colorMode) ==
  CASE colorMode = "monochrome" -> <<"key">>
    [] colorMode = "duotone" -> <<"tone1", "tone2">>
    [] colorMode = "tritone" -> <<"shadows", "midtones", "highlights">>
    [] OTHER -> <<"cyan", "magenta", "yellow", "black">>

modeAngles(colorMode) ==
  CASE colorMode = "monochrome" -> [key |-> 45]
    [] colorMode = "duotone" -> [tone1 |-> 75, tone2 |-> 15]
    [] colorMode = "tritone" -> [shadows |-> 75, midtones |-> 15, highlights |-> 0]
    [] OTHER -> [cyan |-> 15, magenta |-> 75, yellow |-> 0, black |-> 45]

\* the channels a colour input exists for: cyanColor, magentaColor,
\* yellowColor and blackColor are the only colour inputs the code reads
uiChannelIds == <<"cyan", "magenta", "yellow", "black">>

\* getProcessingConfig, read from the controls as they are now (the
\* standard-angle box is checked throughout)
getProcessingConfig(u) ==
  LET names == genericChannelNames(u.colorMode)
  IN  [patternType |-> u.patternType, dotSize |-> u.dotSize, spacing |-> u.spacing,
       lineAngle |-> u.lineAngle, randomness |-> u.randomness, contrast |-> u.contrast,
       colorMode |-> u.colorMode, renderStyle |-> u.renderStyle,
       strokeWidth |-> u.strokeWidth,
       colors |-> [c \in {names[i] : i \in 1..Len(names)} |->
                     u.colors[CHOOSE i \in 1..Len(names) : names[i] = c]],
       channelNames |-> names,
       angles |-> modeAngles(u.colorMode),
       paperSize |-> u.paperSize]

\* ColorManager.getCmykPalette: entries of _cmykPalettes Math.random may pick
CmykPalettes ==
  {<<"#3d9a9c", "#d75a8b", "#e5c36a", "#3a3a3a">>}

\* ColorManager.generateProgrammaticPalette(numColors): what it returns
\* when its three Math.random draws are 0
ProgrammaticPalettes(numColors) ==
  CASE numColors = 1 -> {<<"#382e2e">>}
    [] numColors = 2 -> {<<"#a32929", "#5cd6d6">>}
    [] numColors = 3 -> {<<"#cc3333", "#33cc33", "#3333cc">>}
    [] OTHER -> {<<"#cc3333", "#80cc33", "#33cccc", "#8033cc">>}

\* a storeSVG that keeps what a channel already has
storeSVG_KeepFirst(data, channel, svg) ==
  IF channel \in DOMAIN data THEN data ELSE Put(data, channel, svg)

\* SVGExporter.storeSVG: this.svgData[channel] = svg
storeSVG(data, channel, svg) == Put(data, channel, svg)

\* extractSVGElements: the regular expression wants a group opened by
\* <g fill="..."> and nothing else; generatePattern opens its group with
\* <g fill="..." stroke="...">, so nothing matches and '' is returned
extractSVGElements(svg) == <<>>

\* the channels generateCombinedSVG finds a stored document for
storedOf(data, channels) ==
  SelectSeq(channels, LAMBDA c : c \in DOMAIN data)

\* generateCombinedSVG reads document.getElementById(channel + 'Color').value
\* for each of these; it throws where the page has no such input
combinedSVGThrows(data, channels) ==
  \E i \in 1..Len(channels) :
    /\ channels[i] \in DOMAIN data
    /\ \A j \in 1..Len(uiChannelIds) : uiChannelIds[j] # channels[i]

\* SVGExporter.generateCombinedSVG(width, height, channels): the document
\* it stores under 'combined'
generateCombinedSVG(data, u, width, height, channels) ==
  LET stored == storedOf(data, channels)
      colorOf(c) == u.colors[CHOOSE j \in 1..Len(uiChannelIds) : uiChannelIds[j] = c]
  IN  [svg |-> [width |-> width, height |-> height, background |-> "white",
                groups |-> [i \in 1..Len(stored) |->
                             [channel |-> stored[i], fill |-> colorOf(stored[i]),
                              elements |-> extractSVGElements(data[stored[i]].svg)]]],
       job |-> 0]

\* generateCombinedPreview: what the two combined canvases hold afterwards
generateCombinedPreview(channelNames, hidden, width, height) ==
  LET present == SelectSeq(channelNames, LAMBDA c : c \in DOMAIN hidden)
  IN  [width |-> width, height |-> height,
       layers |-> [i \in 1..Len(present) |-> hidden[present[i]].bitmap]]

\* setProcessingState(isProcessing)
setProcessingState(d, isProcessing) ==
  [d EXCEPT !.processBtnDisabled = isProcessing, !.processing = isProcessing]

(***************************************************************************)
(* Handlers of the main thread and of the worker.                          *)
(***************************************************************************)
\* what only the worker thread touches
workerSide == <<seedRandom, args, callCount, lastCall, prevCall, rng, unitCall>>

\* the user does one more thing: picks a file, changes a control, clicks
UserEvent ==
  /\ events < MaxEvents
  /\ events' = events + 1

\* processImage, as the part of a handler that ends with it: with no image
\* it alerts and returns; else it reads the controls (u: as the handler
\* left them), shows the processing state and arms the 100 ms timer
processImage(u, d, image) ==
  IF image = 0
  THEN /\ dom' = d
       /\ timers' = timers
  ELSE /\ dom' = setProcessingState(d, TRUE)
       /\ timers' = Append(timers, [config |-> getProcessingConfig(u)])

\* handleFile(file), up to reader.onload: this.uploadedImage = new Image()
handleFile(id) ==
  /\ UNCHANGED workerSide
  /\ UserEvent
  /\ dom.uploadVisible
  /\ loading = 0
  /\ uploadedImage' = id
  /\ loading' = id
  /\ UNCHANGED <<ui, dom, timers, inbox, outbox, workerResults, expectedWorkerResults,
                 svgData, canvases, combinedCanvas, jobLog>>

\* this.uploadedImage.onload of handleFile.  After a resetApp in between,
\* displayOriginalImage reads the width of null and the handler ends there.
imageOnload ==
  /\ UNCHANGED workerSide
  /\ UNCHANGED events
  /\ loading # 0
  /\ loading' = 0
  /\ LET shown == [dom EXCEPT !.processBtnDisabled = FALSE, !.uploadVisible = FALSE]
     IN  IF uploadedImage = 0
         THEN /\ dom' = shown
              /\ UNCHANGED <<ui, timers>>
         ELSE /\ ui' = [ui EXCEPT !.spacing = autoAdjustSpacing(ImageWidth(uploadedImage),
                                                               ImageHeight(uploadedImage))]
              /\ processImage(ui', shown, uploadedImage)
  /\ UNCHANGED <<uploadedImage, inbox, outbox, workerResults, expectedWorkerResults,
                 svgData, canvases, combinedCanvas, jobLog>>

\* a change of the colour-mode select (updateUIForCurrentSettings only
\* shows and hides controls)
selectColorMode(mode) ==
  /\ UNCHANGED workerSide
  /\ UserEvent
  /\ mode # ui.colorMode
  /\ ui' = [ui EXCEPT !.colorMode = mode]
  /\ UNCHANGED <<uploadedImage, loading, dom, timers, inbox, outbox, workerResults,
                 expectedWorkerResults, svgData, canvases, combinedCanvas, jobLog>>

\* a change of the pattern-type select
selectPatternType(type) ==
  /\ UNCHANGED workerSide
  /\ UserEvent
  /\ type # ui.patternType
  /\ ui' = [ui EXCEPT !.patternType = type]
  /\ UNCHANGED <<uploadedImage, loading, dom, timers, inbox, outbox, workerResults,
                 expectedWorkerResults, svgData, canvases, combinedCanvas, jobLog>>

\* a click on processBtn, which a disabled button does not deliver
clickProcess ==
  /\ UNCHANGED workerSide
  /\ UserEvent
  /\ ~dom.processBtnDisabled
  /\ processImage(ui, dom, uploadedImage)
  /\ UNCHANGED <<uploadedImage, loading, ui, inbox, outbox, workerResults,
                 expectedWorkerResults, svgData, canvases, combinedCanvas, jobLog>>

\* applyHarmoniousPalette
applyHarmoniousPalette ==
  /\ UNCHANGED workerSide
  /\ UserEvent
  /\ \E palette \in IF ui.colorMode = "cmyk" THEN CmykPalettes
                    ELSE ProgrammaticPalettes(numChannels(ui.colorMode)) :
       ui' = [ui EXCEPT !.colors = [i \in 1..4 |-> IF i <= numChannels(ui.colorMode)
                                                   THEN palette[i] ELSE ui.colors[i]]]
  /\ processImage(ui', dom, uploadedImage)
  /\ UNCHANGED <<uploadedImage, loading, inbox, outbox, workerResults,
                 expectedWorkerResults, svgData, canvases, combinedCanvas, jobLog>>

\* resetDefaultColors
resetDefaultColors ==
  /\ UNCHANGED workerSide
  /\ UserEvent
  /\ ui' = [ui EXCEPT !.colors = DefaultColors]
  /\ processImage(ui', dom, uploadedImage)
  /\ UNCHANGED <<uploadedImage, loading, inbox, outbox, workerResults,
                 expectedWorkerResults, svgData, canvases, combinedCanvas, jobLog>>

\* resetApp: the image and workerResults are dropped, the upload view shown
resetApp ==
  /\ UNCHANGED workerSide
  /\ UserEvent
  /\ uploadedImage' = 0
  /\ workerResults' = EmptyMap
  /\ dom' = [dom EXCEPT !.uploadVisible = TRUE, !.processBtnDisabled = TRUE]
  /\ UNCHANGED <<loading, ui, timers, inbox, outbox, expectedWorkerResults,
                 svgData, canvases, combinedCanvas, jobLog>>

\* the callback processImage handed to setTimeout.  With no image
\* getImageData throws and the callback ends; with an image that has not
\* loaded getImageData returns null; else the job is posted to the worker.
timerCallback ==
  /\ UNCHANGED workerSide
  /\ UNCHANGED events
  /\ timers # <<>>
  /\ timers' = Tail(timers)
  /\ LET config == Head(timers).config
     IN  IF uploadedImage = 0
         THEN UNCHANGED <<dom, workerResults, expectedWorkerResults, inbox, jobLog>>
         ELSE IF loading = uploadedImage
         THEN /\ dom' = setProcessingState(dom, FALSE)
              /\ UNCHANGED <<workerResults, expectedWorkerResults, inbox, jobLog>>
         ELSE /\ workerResults' = EmptyMap
              /\ expectedWorkerResults' = Len(config.channelNames)
              /\ inbox' = Append(inbox, [config |-> config,
                                         imageData |-> uploadedImage,
                                         job |-> Len(jobLog) + 1])
              /\ jobLog' = Append(jobLog, [config |-> config, image |-> uploadedImage,
                                           rendered |-> FALSE, seedAtStart |-> 0,
                                           seeds |-> <<>>, channels |-> {},
                                           handled |-> 0, overtaken |-> FALSE])
              /\ UNCHANGED dom
  /\ UNCHANGED <<uploadedImage, loading, ui, outbox, svgData, canvases, combinedCanvas>>

\* the worker's onmessage, start to end: the oldest job message is taken,
\* the channels separated, and every channel rendered and posted
workerOnmessage ==
  /\ inbox # <<>>
  /\ \E msg \in {Head(inbox)} :
       \E r \in {onmessage(msg.config, getImageData(msg.imageData), seedRandom, msg.job)} :
         /\ seedRandom' = r.seed
         /\ outbox' = outbox \o r.results
         /\ jobLog' = [jobLog EXCEPT ![msg.job].rendered = TRUE,
                                     ![msg.job].seedAtStart = seedRandom,
                                     ![msg.job].seeds = r.seeds,
                                     ![msg.job].channels = r.channels]
  /\ inbox' = Tail(inbox)
  /\ UNCHANGED <<args, callCount, lastCall, prevCall, rng, unitCall, uploadedImage, loading, ui, dom,
                 events, timers, workerResults, expectedWorkerResults, svgData, canvases,
                 combinedCanvas>>

\* handleWorkerMessage: the result is stored, drawn to the channel's hidden
\* canvas, and when workerResults has expectedWorkerResults keys the
\* combined preview is built from the controls as they are now.  The
\* preview throws with no image (the width of null), generateCombinedSVG
\* throws on a stored channel without a colour input; either ends the
\* handler before setProcessingState(false).
handleWorkerMessage ==
  /\ UNCHANGED workerSide
  /\ UNCHANGED events
  /\ outbox # <<>>
  /\ outbox' = Tail(outbox)
  /\ LET m == Head(outbox)
         stored == storeSVG(svgData, m.channel, [svg |-> m.svg, job |-> m.job])
         results == Put(workerResults, m.channel, [imageBitmap |-> m.imageBitmap])
         hidden == Put(canvases, m.channel, [bitmap |-> m.imageBitmap, job |-> m.job])
         config == getProcessingConfig(ui)
         complete == Cardinality(DOMAIN results) = expectedWorkerResults
     IN  /\ workerResults' = results
         /\ canvases' = hidden
         /\ jobLog' = [jobLog EXCEPT ![m.job].handled = @ + 1,
                                     ![m.job].overtaken = @ \/ Len(jobLog) > m.job]
         /\ IF ~complete \/ uploadedImage = 0
            THEN /\ svgData' = stored
                 /\ UNCHANGED <<combinedCanvas, dom>>
            ELSE /\ combinedCanvas' =
                      generateCombinedPreview(config.channelNames, hidden,
                        IF loading = uploadedImage THEN 0 ELSE ImageWidth(uploadedImage),
                        IF loading = uploadedImage THEN 0 ELSE ImageHeight(uploadedImage))
                 /\ IF combinedSVGThrows(stored, config.channelNames)
                    THEN /\ svgData' = stored
                         /\ UNCHANGED dom
                    ELSE /\ svgData' = Put(stored, "combined",
                                           generateCombinedSVG(stored, ui,
                                             combinedCanvas'.width, combinedCanvas'.height,
                                             config.channelNames))
                         /\ dom' = setProcessingState(dom, FALSE)
  /\ UNCHANGED <<uploadedImage, loading, ui, timers, inbox, expectedWorkerResults>>

Init ==
  /\ AppStart
  /\ seedRandom = InitialSeed
  /\ args = NoCall
  /\ callCount = 0
  /\ lastCall = NoCall
  /\ prevCall = NoCall
  /\ rng = NoRng
  /\ unitCall = NoUnitCall

Next ==
  \/ \E id \in ImageIds : handleFile(id)
  \/ imageOnload
  \/ \E mode \in AppColorModes : selectColorMode(mode)
  \/ \E type \in AppPatternTypes : selectPatternType(type)
  \/ clickProcess
  \/ applyHarmoniousPalette
  \/ resetDefaultColors
  \/ resetApp
  \/ timerCallback
  \/ handleWorkerMessage
  \/ workerOnmessage

Spec == Init /\ [][Next]_vars

\* the step takes the oldest job message from the worker's queue: of the
\* steps of Next, the runs of the worker's onmessage
TakesJob == inbox # <<>> /\ inbox' = Tail(inbox)

\* the browser's event loops: an image that is loading loads, a timer that
\* is due runs, a job message that is queued is taken by the worker, which
\* answers it, and a result that was posted is handled
SpecLive ==
  /\ Init /\ [][Next]_vars
  /\ WF_vars(imageOnload)
  /\ WF_vars(timerCallback)
  /\ WF_inbox(TakesJob)
  /\ WF_vars(handleWorkerMessage)

(***************************************************************************)
(* Claims about jobs, under Spec.                                          *)
(***************************************************************************)
\* the names of a job's channels, as a set
ChannelsOf(j) ==
  {jobLog[j].config.channelNames[i] : i \in 1..Len(jobLog[j].config.channelNames)}

\* every result of job j has been handled by the main thread
Completed(j) ==
  /\ jobLog[j].rendered
  /\ jobLog[j].handled = Len(jobLog[j].config.channelNames)

\* the orders a list of channel names can be put in
Orders(names) ==
  {p \in [1..Len(names) -> 1..Len(names)] :
     \A a, b \in 1..Len(names) : a # b => p[a] # p[b]}

\* the document a worker run posted for a channel
SvgFor(results, channel) ==
  LET i == CHOOSE k \in 1..Len(results) : results[k].channel = channel
  IN  results[i].svg

\* what the worker posts for job j when it renders the channels in the
\* order p, from the generator state job j found
RenderedInOrder(j, p) ==
  LET config == jobLog[j].config
      imageData == getImageData(jobLog[j].image)
      n == Len(config.channelNames)
      names == IF n = 1 THEN <<config.channelNames[p[1]]>>
               ELSE IF n = 2 THEN <<config.channelNames[p[1]], config.channelNames[p[2]]>>
               ELSE IF n = 3 THEN <<config.channelNames[p[1]], config.channelNames[p[2]],
                                    config.channelNames[p[3]]>>
               ELSE <<config.channelNames[p[1]], config.channelNames[p[2]],
                      config.channelNames[p[3]], config.channelNames[p[4]]>>
  IN  renderChannels(names, separate(config, imageData), imageData, config,
                     jobLog[j].seedAtStart, j).results

\* C2: at the start of every job, and of every channel's render within a
\* job, the seeded generator the render draws from is in its initial state
\* (seed 12345)
C2_GeneratorInitialAtEveryRender ==
  \A j \in 1..Len(jobLog) :
    jobLog[j].rendered =>
      /\ jobLog[j].seedAtStart = InitialSeed
      /\ \A i \in 1..Len(jobLog[j].seeds) : jobLog[j].seeds[i] = InitialSeed

\* C3: within one job, the vector output of a channel does not depend on
\* which other channels were rendered before it: rendering the channels in
\* any order gives each channel the output it gets in config.channelNames
\* order (the pattern type not being stipple)
C3_ChannelOutputIndependentOfOrder ==
  \A j \in 1..Len(jobLog) :
    (jobLog[j].rendered /\ jobLog[j].config.patternType # "stipple") =>
      LET inOrder == RenderedInOrder(j, <<1, 2, 3, 4>>)
      IN  \A p \in Orders(jobLog[j].config.channelNames) :
            LET other == RenderedInOrder(j, p)
            IN  \A c \in ChannelsOf(j) : SvgFor(other, c) = SvgFor(inOrder, c)

\* C4: when two jobs were submitted one after the other and both have run
\* to completion, the vector output and the raster surface stored for each
\* channel of the second job are the ones the second job produced, however
\* the first job's results interleaved with the second job's start
C4_SecondJobOutputsStored ==
  (/\ Len(jobLog) >= 2
   /\ \A j \in 1..Len(jobLog) : Completed(j))
    => LET last == Len(jobLog)
           produced == onmessage(jobLog[last].config, getImageData(jobLog[last].image),
                                 jobLog[last].seedAtStart, last).results
       IN  \A i \in 1..Len(produced) :
             LET c == produced[i].channel
             IN  /\ c \in DOMAIN svgData
                 /\ svgData[c].job = last
                 /\ svgData[c].svg = produced[i].svg
                 /\ c \in DOMAIN canvases
                 /\ canvases[c].job = last
                 /\ canvases[c].bitmap = produced[i].imageBitmap

\* two CMYK jobs of different colours have completed,
\* and a result of the first was handled after the second had been posted
C4_Witness ==
  /\ Len(jobLog) = 2
  /\ Completed(1) /\ Completed(2)
  /\ jobLog[1].overtaken
  /\ jobLog[1].config.colorMode = "cmyk"
  /\ jobLog[2].config.colorMode = "cmyk"
  /\ jobLog[1].config.colors # jobLog[2].config.colors
  /\ svgData["cyan"].job = 2

\* C5: after a job has completed, the stored per-channel outputs contain
\* results only for the channels of that job; what an earlier job stored
\* under another channel name is no longer present
C5_OnlyChannelsOfCompletedJob ==
  \A j \in 1..Len(jobLog) :
    (j = Len(jobLog) /\ Completed(j)) =>
      (DOMAIN svgData) \ {"combined"} = ChannelsOf(j)

\* the channel set the colour modes are documented to have
ChannelSetOf(colorMode) ==
  CASE colorMode = "monochrome" -> {"key"}
    [] colorMode = "duotone" -> {"tone1", "tone2"}
    [] colorMode = "tritone" -> {"shadows", "midtones", "highlights"}
    [] colorMode = "cmyk" -> {"cyan", "magenta", "yellow", "black"}

\* C19: for every job the worker has rendered, the channels it separated
\* are exactly the set of the job's colour mode, and every name of the
\* job's config.channelNames is one of them
C19_ChannelSetOfMode ==
  \A j \in 1..Len(jobLog) :
    jobLog[j].rendered =>
      /\ jobLog[j].channels = ChannelSetOf(jobLog[j].config.colorMode)
      /\ ChannelsOf(j) \subseteq jobLog[j].channels

\* a tritone job has been rendered from its three tone maps, after a job
\* of another colour mode
C19_Witness ==
  \E j \in 2..Len(jobLog) :
    /\ jobLog[j].rendered
    /\ jobLog[j].config.colorMode = "tritone"
    /\ jobLog[j].config.channelNames = <<"shadows", "midtones", "highlights">>
    /\ jobLog[j].channels = {"shadows", "midtones", "highlights"}
    /\ jobLog[j - 1].rendered
    /\ jobLog[j - 1].channels # jobLog[j].channels

\* the messages a step adds at the end of the worker's output
Posted == SubSeq(outbox', Len(outbox) + 1, Len(outbox'))

\* no result of a job lies behind a result of a job received later
JobsInOrder(results) ==
  \A a, b \in 1..Len(results) : a < b => results[a].job <= results[b].job

\* a step that takes a job message posts one result per channel name, in
\* the order of config.channelNames, behind what was posted before
TakenJobPosted ==
  TakesJob =>
    /\ Len(outbox') = Len(outbox) + Len(Head(inbox).config.channelNames)
    /\ \A i \in 1..Len(Head(inbox).config.channelNames) :
         /\ Posted[i].channel = Head(inbox).config.channelNames[i]
         /\ Posted[i].job = Head(inbox).job
    /\ JobsInOrder(outbox')

\* any other step leaves the queued job messages in place, adding at most
\* one behind them, and posts nothing
JobsKept ==
  ~TakesJob =>
    /\ \/ inbox' = inbox
       \/ Len(inbox') = Len(inbox) + 1 /\ SubSeq(inbox', 1, Len(inbox)) = inbox
    /\ outbox' = outbox \/ outbox' = Tail(outbox)

\* C23: for each job message it receives the worker posts exactly one
\* result per name of config.channelNames, in the order of the list, and
\* all of them before any result of a job received later; a job message
\* leaves the queue only by being taken and rendered in full
C23_OneResultPerChannelInOrder == [][TakenJobPosted /\ JobsKept]_vars

\* the four results of a CMYK job wait behind the results of the job
\* received before it, which was posted while the first was not yet taken
C23_Witness ==
  /\ Len(jobLog) >= 2
  /\ jobLog[1].rendered /\ jobLog[2].rendered
  /\ Len(outbox) >= 5
  /\ outbox[1].job = 1
  /\ outbox[Len(outbox)].job = 2
  /\ outbox[Len(outbox)].channel = "black"
  /\ outbox[Len(outbox) - 3].channel = "cyan"

\* the step is a handleWorkerMessage run
HandlesResult == outbox # <<>> /\ outbox' = Tail(outbox)

\* a handleWorkerMessage run that finds all channels processed, builds the
\* combined preview and ends the processing state
CompletesProcessing ==
  /\ HandlesResult
  /\ Cardinality(DOMAIN workerResults') = expectedWorkerResults

\* a handleWorkerMessage run that handles the last outstanding result of
\* the job its message belongs to
HandlesLastOfJob ==
  /\ HandlesResult
  /\ jobLog'[Head(outbox).job].handled = Len(jobLog[Head(outbox).job].config.channelNames)

\* C27: the main thread builds the combined preview and ends the
\* processing state in exactly the handleWorkerMessage run that receives
\* the last result of a job: not before every channel of that job has
\* been received, and once per job, also when jobs overlap
C27_PreviewOncePerCompleteJob ==
  [][HandlesResult => (CompletesProcessing <=> HandlesLastOfJob)]_vars

\* C28: whenever processImage has shown the processing state, the state
\* is cleared again (setProcessingState(false)) at some later point, the
\* worker answering every job posted to it
C28_ProcessingEventuallyCleared == dom.processing ~> ~dom.processing

====
